---- MODULE Spec2Model ----
(***************************************************************************)
(* A model of avocado's Collection<T> facade (src/avocado/src/coll.rs)     *)
(* over a remote document store.                                           *)
(*                                                                         *)
(* One action per facade method.  Each action is one whole call: it fixes  *)
(* the arguments, issues the request (if the code gets that far), lets the *)
(* store act and reply, and maps the raw reply to the returned Result as   *)
(* the code does.  The store is the environment: what it does and what it  *)
(* replies are chosen nondeterministically, the contractual behaviour      *)
(* being one of the choices.                                               *)
(*                                                                         *)
(* Option<X> is modelled as a set with at most one element: {} is None,    *)
(* {x} is Some(x).                                                         *)
(***************************************************************************)
EXTENDS Integers, Sequences, FiniteSets, TLC

\* Most entities handed to one insert_many / delete_entities call; also the
\* number of distinct identifiers.
MaxDocs == 2

Ids == 1 .. MaxDocs
Bodies == {"a", "b"}

VARIABLES
    store,      \* the collection's contents: _id -> Option<body>
    before,     \* the collection's contents when the last call started
    call,       \* the last facade call and its arguments
    requests,   \* the requests that call sent to the store, in order
    reply,      \* Option<raw reply> the store gave to that call
    result,     \* what the call returned (or that it panicked)
    extdoc,     \* the Document the DocumentExt helpers work on
    tally       \* the insert / delete scenario's count of what it did

vars == <<store, before, call, requests, reply, result, extdoc, tally>>

\* What the facade's methods never touch.
aside == <<extdoc, tally>>

----------------------------------------------------------------------------
(* Values.                                                                 *)

None == {}
Some(x) == {x}
Unwrap(o) == CHOOSE x \in o : TRUE

\* The BSON form of an identifier: Uid<T> serializes transparently as its
\* raw value, here an ObjectId.
to_bson(uid) == [kind |-> "ObjectId", val |-> uid]

\* A BSON value that is no ObjectId.
BsonString(v) == [kind |-> "String", val |-> v]

\* from_bson::<Uid<T>>: decoding succeeds exactly on an ObjectId.
from_bson(bson) ==
    IF bson.kind = "ObjectId"
    THEN [ok |-> TRUE, uid |-> bson.val]
    ELSE [ok |-> FALSE, raw |-> bson]

\* An entity of type T: an optional identifier and the other fields.
Entity == [id : {None} \cup {Some(i) : i \in Ids}, body : Bodies]

\* Doc::id
id(entity) == entity.id

\* serialize_document: the `_id` field is present iff the entity has an id.
serialize_document(entity) ==
    [_id |-> {to_bson(i) : i \in entity.id}, body |-> entity.body]

serialize_documents(entities) ==
    [p \in DOMAIN entities |-> serialize_document(entities[p])]

\* Document::remove("_id"): the removed value and the rest of the document.
remove_id(document) ==
    [removed |-> document._id, rest |-> [document EXCEPT !._id = None]]

----------------------------------------------------------------------------
(* Returned values.                                                        *)

\* Error::new(kind, message)
ErrorNew(kind) == [tag |-> "Err", kind |-> kind, cause |-> "none", context |-> None]

\* Error::with_cause(message, cause), and `.chain(message)` on a failed call
ErrorWithCause(cause) == [tag |-> "Err", kind |-> "cause", cause |-> cause, context |-> None]

\* Error::with_context::<InsertManyErrorContext<T>>(ids)
with_context(error, ids) == [error EXCEPT !.context = Some(ids)]

Panic == [tag |-> "Panic"]

----------------------------------------------------------------------------
(* The store.                                                              *)

EmptyStore == [i \in Ids |-> None]

Present(st, i) == st[i] # None

\* The identifier a filter `{ "_id": id }` selects.
IdOfDoc(doc) == (Unwrap(doc._id)).val

\* Inserting the first k documents of a batch (an ordered bulk insert stops
\* at the first document it cannot insert).
CanInsertPrefix(st, docs, k) ==
    \A p \in 1 .. k : ~Present(st, IdOfDoc(docs[p]))

InsertPrefix(st, docs, k) ==
    [i \in Ids |->
        IF \E p \in 1 .. k : IdOfDoc(docs[p]) = i
        THEN Some((CHOOSE d \in {docs[p] : p \in 1 .. k} : IdOfDoc(d) = i).body)
        ELSE st[i]]

----------------------------------------------------------------------------
(* insert_many                                                             *)

\* Batches of entities handed to insert_many: each carries an identifier,
\* no two the same; the other fields do not affect the call, so the
\* members of a batch share them.
InsertBatches ==
    {es \in UNION {[1 .. n -> Entity] : n \in 0 .. MaxDocs} :
        /\ \A p \in DOMAIN es : es[p].id # None
        /\ \A p, q \in DOMAIN es : es[p].body = es[q].body
        /\ \A p, q \in DOMAIN es : es[p].id = es[q].id => p = q}

\* InsertManyResult.inserted_ids is an Option<BTreeMap<i64, Bson>>.  The
\* positions a reply may name: those of the batch, one below and one above.
ReplyPositions(docs) == -1 .. Len(docs)

\* What a reply reports at a position: the document's own `_id`, or a value
\* that does not decode as Uid<T>; outside the batch, some ObjectId.
ReportedAt(docs, p, how) ==
    IF p \in 0 .. Len(docs) - 1
    THEN IF how = "id"
         THEN Unwrap(docs[p + 1]._id)
         ELSE BsonString(IdOfDoc(docs[p + 1]))
    ELSE to_bson(Len(docs))

InsertedIdMaps(docs) ==
    {[p \in {q \in ReplyPositions(docs) : how[q] # "absent"} |-> ReportedAt(docs, p, how[p])] :
        how \in {h \in [ReplyPositions(docs) -> {"absent", "id", "raw"}] :
                    \A q \in ReplyPositions(docs) :
                        q \notin 0 .. Len(docs) - 1 => h[q] # "raw"}}

\* The raw replies to mongodb::Collection::insert_many: the call fails, or
\* it returns an InsertManyResult.
InsertManyReplies(docs) ==
    {[ok |-> FALSE]} \cup
    [ok : {TRUE},
     inserted_ids : {None} \cup {Some(m) : m \in InsertedIdMaps(docs)},
     bulk_write_exception : BOOLEAN]

\* Option<BTreeMap>::unwrap_or_default
unwrap_or_default(opt) == IF opt = None THEN <<>> ELSE Unwrap(opt)

\* A mutant of DecodeIds that drops the identifiers that do not decode.
DecodeIdsDropRaw(raw) ==
    [i \in {j \in DOMAIN raw : from_bson(raw[j]).ok} |-> from_bson(raw[i])]

\* `(i as u64, from_bson(id.clone()).map_err(|_| id))` over the reported
\* identifiers, collected into a map (the keys are non-negative here).
DecodeIds(raw) == [i \in DOMAIN raw |-> from_bson(raw[i])]

\* The closure insert_many applies to the store's reply.
InsertManyOutcome(n_docs, rep) ==
    IF ~rep.ok THEN ErrorWithCause("transport")
    ELSE LET raw == unwrap_or_default(rep.inserted_ids) IN
         IF \E i \in DOMAIN raw : i < 0
         THEN Panic      \* assert!(i >= 0, ...)
         ELSE LET ids == DecodeIds(raw) IN
              IF rep.bulk_write_exception
              THEN with_context(ErrorWithCause("bulk_write_exception"), ids)
              ELSE IF Cardinality(DOMAIN ids) = n_docs
              THEN IF \A i \in DOMAIN ids : ids[i].ok
                   THEN [tag |-> "Ok", ids |-> [i \in DOMAIN ids |-> ids[i].uid]]
                   ELSE with_context(ErrorNew("BsonDecoding"), ids)
              ELSE with_context(ErrorNew("MissingId"), ids)

\* A mutant of InsertManyReturnsEarly that forwards every batch to the store.
InsertManyNeverEarly(n_docs) == FALSE

\* `if n_docs == 0 { return Ok(BTreeMap::new()); }`
InsertManyReturnsEarly(n_docs) == n_docs = 0

\* Collection::insert_many
insert_many ==
    \E entities \in InsertBatches :
        LET n_docs == Len(entities)
            docs == serialize_documents(entities)
        IN
        /\ call.method = "idle"
        /\ call' = [method |-> "insert_many", entities |-> entities]
        /\ IF InsertManyReturnsEarly(n_docs)
           THEN /\ requests' = <<>>
                /\ reply' = None
                /\ result' = [tag |-> "Ok", ids |-> <<>>]
                /\ UNCHANGED <<store, before, aside>>
           ELSE \E rep \in InsertManyReplies(docs), k \in 0 .. n_docs :
                /\ CanInsertPrefix(store, docs, k)
                /\ requests' = <<[op |-> "insert_many", docs |-> docs]>>
                /\ reply' = Some(rep)
                /\ store' = InsertPrefix(store, docs, k)
                /\ result' = InsertManyOutcome(n_docs, rep)
                /\ UNCHANGED <<before, aside>>

----------------------------------------------------------------------------
(* insert_one                                                              *)

\* The raw replies to mongodb::Collection::insert_one: the call fails, or
\* it returns an InsertOneResult.
InsertOneReplies ==
    {[ok |-> FALSE]} \cup
    [ok : {TRUE},
     inserted_id : {None} \cup {Some(to_bson(i)) : i \in Ids}
                          \cup {Some(BsonString(i)) : i \in Ids},
     write_exception : BOOLEAN]

\* What the store may do with an insert_one request: nothing, or insert the
\* document under its `_id` (under a fresh one if it has none), provided
\* that identifier is free.
InsertOneEffects(st, doc) ==
    {st} \cup
    {[st EXCEPT ![i] = Some(doc.body)] :
        i \in {j \in Ids : /\ ~Present(st, j)
                           /\ doc._id # None => j = IdOfDoc(doc)}}

\* A mutant of InsertOneOutcome that looks at the identifier first.
InsertOneOutcomeIdFirst(rep) ==
    IF ~rep.ok THEN ErrorWithCause("transport")
    ELSE IF rep.inserted_id # None
    THEN LET decoded == from_bson(Unwrap(rep.inserted_id)) IN
         IF decoded.ok
         THEN [tag |-> "Ok", id |-> decoded.uid]
         ELSE ErrorWithCause("bson_decoding")
    ELSE IF rep.write_exception
    THEN ErrorWithCause("write_exception")
    ELSE ErrorNew("MissingId")

\* The closure insert_one applies to the store's reply.
InsertOneOutcome(rep) ==
    IF ~rep.ok THEN ErrorWithCause("transport")
    ELSE IF rep.write_exception
    THEN ErrorWithCause("write_exception")
    ELSE IF rep.inserted_id # None
    THEN LET decoded == from_bson(Unwrap(rep.inserted_id)) IN
         IF decoded.ok
         THEN [tag |-> "Ok", id |-> decoded.uid]
         ELSE ErrorWithCause("bson_decoding")
    ELSE ErrorNew("MissingId")

\* Collection::insert_one
insert_one ==
    \E entity \in Entity :
        LET doc == serialize_document(entity) IN
        /\ call.method = "idle"
        /\ call' = [method |-> "insert_one", entity |-> entity]
        /\ \E rep \in InsertOneReplies, st \in InsertOneEffects(store, doc) :
            /\ requests' = <<[op |-> "insert_one", doc |-> doc,
                              write_concern |-> "T::insert_options"]>>
            /\ reply' = Some(rep)
            /\ store' = st
            /\ result' = InsertOneOutcome(rep)
        /\ UNCHANGED <<before, aside>>

----------------------------------------------------------------------------
(* Filters, and the store's side of updates and deletes.                   *)

\* doc!{ "_id": id }
IdFilter(bson) == [kind |-> "id", id |-> bson]

\* doc!{ "_id": { "$in": ids } }
InFilter(bsons) == [kind |-> "in", ids |-> bsons]

\* A mutant of DeleteEntitiesCriterion that names the first identifier only.
DeleteEntitiesCriterionFirst(ids) ==
    InFilter(IF ids = <<>> THEN ids ELSE <<ids[1]>>)

\* `doc!{ "_id": { "$in": ids } }` of delete_entities
DeleteEntitiesCriterion(ids) == InFilter(ids)

\* The empty document, which matches everything.
AllFilter == [kind |-> "all"]

\* The filters operation values build.
UserFilters == {AllFilter} \cup {IdFilter(to_bson(i)) : i \in Ids}

\* The identifiers of the stored documents a filter matches.
Matches(st, filter) ==
    {i \in Ids :
        /\ Present(st, i)
        /\ CASE filter.kind = "all" -> TRUE
             [] filter.kind = "id" -> filter.id = to_bson(i)
             [] filter.kind = "in" ->
                    \E p \in DOMAIN filter.ids : filter.ids[p] = to_bson(i)}

\* The identifiers under which an upsert that matched nothing may insert:
\* the one the filter names, else any free one the store generates.
UpsertTargets(st, filter) ==
    IF filter.kind = "id"
    THEN {i \in Ids : filter.id = to_bson(i)}
    ELSE {i \in Ids : ~Present(st, i)}

\* The `upserted` entry of a write result: a document holding the `_id`.
UpsertedDoc(bson) == [kind |-> "Document", _id |-> Some(bson)]

\* What the store does, by contract, with replace_one / update_one: the
\* set of <<contents afterwards, UpdateResult>> it may produce.  One
\* matching document gets the new body; with nothing matching, an upsert
\* inserts one document and reports its identifier.
WriteOneContract(st, filter, body, upsert) ==
    IF Matches(st, filter) # {}
    THEN {<<[st EXCEPT ![i] = Some(body)],
            [ok |-> TRUE, matched_count |-> 1,
             modified_count |-> IF st[i] = Some(body) THEN 0 ELSE 1,
             upserted_id |-> None, write_exception |-> FALSE]>> :
            i \in Matches(st, filter)}
    ELSE IF upsert
    THEN {<<[st EXCEPT ![i] = Some(body)],
            [ok |-> TRUE, matched_count |-> 0, modified_count |-> 0,
             upserted_id |-> Some(UpsertedDoc(to_bson(i))),
             write_exception |-> FALSE]>> :
            i \in UpsertTargets(st, filter)}
    ELSE {<<st, [ok |-> TRUE, matched_count |-> 0, modified_count |-> 0,
                 upserted_id |-> None, write_exception |-> FALSE]>>}

\* update_many: every matching document gets the new body.
WriteManyContract(st, filter, body, upsert) ==
    IF Matches(st, filter) # {} \/ ~upsert
    THEN {<<[i \in Ids |-> IF i \in Matches(st, filter) THEN Some(body) ELSE st[i]],
            [ok |-> TRUE, matched_count |-> Cardinality(Matches(st, filter)),
             modified_count |->
                Cardinality({i \in Matches(st, filter) : st[i] # Some(body)}),
             upserted_id |-> None, write_exception |-> FALSE]>>}
    ELSE WriteOneContract(st, filter, body, upsert)

\* delete_one removes one matching document, delete_many all of them.
DeleteOneContract(st, filter) ==
    IF Matches(st, filter) = {}
    THEN {<<st, [ok |-> TRUE, deleted_count |-> 0, write_exception |-> FALSE]>>}
    ELSE {<<[st EXCEPT ![i] = None],
            [ok |-> TRUE, deleted_count |-> 1, write_exception |-> FALSE]>> :
            i \in Matches(st, filter)}

DeleteManyContract(st, filter) ==
    {<<[i \in Ids |-> IF i \in Matches(st, filter) THEN None ELSE st[i]],
       [ok |-> TRUE, deleted_count |-> Cardinality(Matches(st, filter)),
        write_exception |-> FALSE]>>}

----------------------------------------------------------------------------
(* Raw write results and their conversion.                                 *)

AnyId == CHOOSE i \in Ids : TRUE

\* The values a reply may carry as UpdateResult.upserted_id: the document
\* the store reports, a document without `_id`, one whose `_id` does not
\* decode, and a value that is no document.
UpsertedValues ==
    {UpsertedDoc(to_bson(i)) : i \in Ids} \cup
    {[kind |-> "Document", _id |-> None],
     UpsertedDoc(BsonString(AnyId)),
     to_bson(AnyId)}

\* The raw replies to replace_one / update_one / update_many: the call
\* fails, or it returns an UpdateResult with counts in `counts`.
UpdateReplies(counts, upserted) ==
    {[ok |-> FALSE]} \cup
    [ok : {TRUE},
     matched_count : counts,
     modified_count : counts,
     upserted_id : {None} \cup {Some(u) : u \in upserted},
     write_exception : BOOLEAN]

\* The raw replies to delete_one / delete_many.
DeleteReplies(counts) ==
    {[ok |-> FALSE]} \cup
    [ok : {TRUE}, deleted_count : counts, write_exception : BOOLEAN]

\* `.chain(message)` on the remote call, then the test of the embedded
\* write exception that every single-result write method makes.
CheckWriteException(rep) ==
    IF ~rep.ok THEN ErrorWithCause("transport")
    ELSE IF rep.write_exception
    THEN ErrorWithCause("write_exception")
    ELSE [tag |-> "Ok", raw |-> rep]

\* Bson::try_into_doc
try_into_doc(bson) ==
    IF bson.kind = "Document"
    THEN [tag |-> "Ok", raw |-> bson]
    ELSE ErrorWithCause("not_a_document")

\* int_to_usize_with_msg: a negative magnitude is an error.
int_to_usize_with_msg(n) ==
    IF n < 0 THEN ErrorWithCause("int_conversion") ELSE [tag |-> "Ok", raw |-> n]

\* UpdateOneResult::from_raw
UpdateOneResult_from_raw(raw) ==
    IF raw.write_exception
    THEN ErrorWithCause("write_exception")
    ELSE [tag |-> "Ok",
          update |-> [matched |-> raw.matched_count > 0,
                      modified |-> raw.modified_count > 0]]

\* UpsertOneResult::from_raw
UpsertOneResult_from_raw(raw) ==
    LET matched == raw.matched_count > 0
        modified == raw.modified_count > 0
        Finish(upserted_id) ==
            IF raw.write_exception
            THEN ErrorWithCause("write_exception")
            ELSE [tag |-> "Ok",
                  update |-> [matched |-> matched, modified |-> modified,
                              upserted_id |-> upserted_id]]
    IN
    IF raw.upserted_id = None THEN Finish(None)
    ELSE LET doc == try_into_doc(Unwrap(raw.upserted_id)) IN
         IF doc.tag # "Ok" THEN doc
         ELSE IF doc.raw._id = None THEN ErrorNew("MissingId")
         ELSE LET decoded == from_bson(Unwrap(doc.raw._id)) IN
              IF ~decoded.ok THEN ErrorWithCause("bson_decoding")
              ELSE Finish(Some(decoded.uid))

\* `.and_then(UpdateOneResult::from_raw)` and
\* `.and_then(UpsertOneResult::from_raw)`, by the outcome type asked for.
and_then_from_raw(res, outcome) ==
    IF res.tag # "Ok" THEN res
    ELSE IF outcome = "UpdateOneResult"
    THEN UpdateOneResult_from_raw(res.raw)
    ELSE UpsertOneResult_from_raw(res.raw)

\* The closure update_many_internal applies to the store's reply.
UpdateManyOutcome(rep) ==
    LET checked == CheckWriteException(rep) IN
    IF checked.tag # "Ok" THEN checked
    ELSE LET num_matched == int_to_usize_with_msg(rep.matched_count)
             num_modified == int_to_usize_with_msg(rep.modified_count)
         IN
         IF num_matched.tag # "Ok" THEN num_matched
         ELSE IF num_modified.tag # "Ok" THEN num_modified
         ELSE [tag |-> "Ok",
               update |-> [num_matched |-> num_matched.raw,
                           num_modified |-> num_modified.raw]]

\* A mutant of DeleteOneOutcome that takes any count for a deletion.
DeleteOneOutcomeAnyCount(rep) ==
    IF ~rep.ok THEN ErrorWithCause("transport")
    ELSE IF rep.write_exception
    THEN ErrorWithCause("write_exception")
    ELSE [tag |-> "Ok", flag |-> rep.deleted_count >= 0]

\* The closure delete_one applies to the store's reply.
DeleteOneOutcome(rep) ==
    LET checked == CheckWriteException(rep) IN
    IF checked.tag # "Ok" THEN checked
    ELSE [tag |-> "Ok", flag |-> rep.deleted_count > 0]

\* A mutant of DeleteManyOutcome that casts the count, so that a negative
\* one wraps around (modulo 2^4 here).
DeleteManyOutcomeWrapping(rep) ==
    LET checked == CheckWriteException(rep) IN
    IF checked.tag # "Ok" THEN checked
    ELSE [tag |-> "Ok", count |-> rep.deleted_count % 16]

\* The closure delete_many applies to the store's reply.
DeleteManyOutcome(rep) ==
    LET checked == CheckWriteException(rep) IN
    IF checked.tag # "Ok" THEN checked
    ELSE LET n == int_to_usize_with_msg(rep.deleted_count) IN
         IF n.tag # "Ok" THEN n ELSE [tag |-> "Ok", count |-> n.raw]

\* The store acts on a request and replies: it keeps its contract, or it
\* acts or replies otherwise (the write fails, the reply is damaged).
StoreActs(contract, replies) ==
    \E rep \in replies, st \in {store} \cup {c[1] : c \in contract} :
        /\ reply' = Some(rep)
        /\ store' = st

----------------------------------------------------------------------------
(* replace_entity, upsert_entity                                           *)

\* Doc::update_options and Doc::upsert_options, the write concerns of T.
T_update_options == "T::update_options"
T_upsert_options == "T::upsert_options"

OneCounts == -1 .. 1
ManyCounts == -1 .. MaxDocs

\* A mutant of NoIdError: the wrong kind of error.
NoIdErrorWrongKind == ErrorNew("BsonDecoding")

\* `Error::new(MissingId, ...)` of update_entity_internal
NoIdError == ErrorNew("MissingId")

\* A mutant of EntityWriteRequests that clears the place with a delete_one
\* of its own before it writes the document.
EntityWriteRequestsTwoSteps(filter, document, options) ==
    <<[op |-> "delete_one", filter |-> filter,
       write_concern |-> "T::delete_options"],
      [op |-> "replace_one", filter |-> filter, doc |-> document,
       upsert |-> options.upsert, write_concern |-> options.write_concern]>>

\* The requests update_entity_internal sends to the store: one replace_one.
EntityWriteRequests(filter, document, options) ==
    <<[op |-> "replace_one", filter |-> filter, doc |-> document,
       upsert |-> options.upsert, write_concern |-> options.write_concern]>>

\* A mutant of EntityFilter that selects any document.
EntityFilterAny(id_bson) == AllFilter

\* `doc!{ "_id": id }` of update_entity_internal
EntityFilter(id_bson) == IdFilter(id_bson)

\* update_entity_internal, followed by the conversion the caller applies.
update_entity_internal(method, entity, upsert, outcome) ==
    LET document == serialize_document(entity)
        removed == remove_id(document)
    IN
    /\ call.method = "idle"
    /\ call' = [method |-> method, entity |-> entity]
    /\ IF removed.removed = None
       THEN /\ requests' = <<>>
            /\ reply' = None
            /\ result' = NoIdError
            /\ UNCHANGED store
       ELSE LET filter == EntityFilter(Unwrap(removed.removed))
                options == [upsert |-> upsert, write_concern |-> T_update_options]
            IN
            /\ requests' = EntityWriteRequests(filter, removed.rest, options)
            /\ StoreActs(WriteOneContract(store, filter, removed.rest.body, options.upsert),
                         UpdateReplies(OneCounts, UpsertedValues))
            /\ result' = and_then_from_raw(CheckWriteException(Unwrap(reply')), outcome)
    /\ UNCHANGED <<before, aside>>

\* A mutant of ReplaceEntityUpsert: replace_entity asks for an upsert.
ReplaceEntityUpsertTrue == TRUE

\* The `upsert` argument replace_entity passes.
ReplaceEntityUpsert == FALSE

\* The `upsert` argument upsert_entity passes.
UpsertEntityUpsert == TRUE

\* Collection::replace_entity
replace_entity ==
    \E entity \in Entity :
        update_entity_internal("replace_entity", entity, ReplaceEntityUpsert,
                               "UpdateOneResult")

\* Collection::upsert_entity
upsert_entity ==
    \E entity \in Entity :
        update_entity_internal("upsert_entity", entity, UpsertEntityUpsert,
                               "UpsertOneResult")

----------------------------------------------------------------------------
(* update_one, upsert_one, update_many, upsert_many                        *)

\* Operation values implementing Update<T> / Upsert<T>: a filter, the
\* change to make (here: the new body), and an overriding write concern
\* if any (tried with one of the changes).
UpdateOps ==
    [filter : UserFilters, change : Bodies, options : {None}] \cup
    [filter : UserFilters, change : {"a"}, options : {Some("w: majority")}]

\* Update::options
Update_options(update) ==
    IF update.options = None THEN T_update_options ELSE Unwrap(update.options)

\* Upsert::options
Upsert_options(upsert) ==
    IF upsert.options = None THEN T_upsert_options ELSE Unwrap(upsert.options)

\* A mutant of UpdateOneOptions that asks for an upsert.
UpdateOneOptionsUpserting(update) ==
    [upsert |-> TRUE, write_concern |-> Update_options(update)]

\* The UpdateOptions update_one builds.
UpdateOneOptions(update) ==
    [upsert |-> FALSE, write_concern |-> Update_options(update)]

\* The UpdateOptions upsert_one builds.
UpsertOneOptions(upsert) ==
    [upsert |-> TRUE, write_concern |-> Upsert_options(upsert)]

\* The UpdateOptions update_many builds.
UpdateManyOptions(update) ==
    [upsert |-> FALSE, write_concern |-> Update_options(update)]

\* The UpdateOptions upsert_many builds.
UpsertManyOptions(upsert) ==
    [upsert |-> TRUE, write_concern |-> Upsert_options(upsert)]

\* update_one_internal, followed by the conversion the caller applies.
update_one_internal(method, op, options, outcome) ==
    /\ call.method = "idle"
    /\ call' = [method |-> method, op |-> op]
    /\ requests' = <<[op |-> "update_one", filter |-> op.filter,
                      change |-> op.change, upsert |-> options.upsert,
                      write_concern |-> options.write_concern]>>
    /\ StoreActs(WriteOneContract(store, op.filter, op.change, options.upsert),
                 UpdateReplies(OneCounts, UpsertedValues))
    /\ result' = and_then_from_raw(CheckWriteException(Unwrap(reply')), outcome)
    /\ UNCHANGED <<before, aside>>

\* update_many_internal
update_many_internal(method, op, options) ==
    /\ call.method = "idle"
    /\ call' = [method |-> method, op |-> op]
    /\ requests' = <<[op |-> "update_many", filter |-> op.filter,
                      change |-> op.change, upsert |-> options.upsert,
                      write_concern |-> options.write_concern]>>
    /\ StoreActs(WriteManyContract(store, op.filter, op.change, options.upsert),
                 UpdateReplies(ManyCounts, {UpsertedDoc(to_bson(i)) : i \in Ids}))
    /\ result' = UpdateManyOutcome(Unwrap(reply'))
    /\ UNCHANGED <<before, aside>>

\* Collection::update_one
update_one ==
    \E update \in UpdateOps :
        update_one_internal("update_one", update, UpdateOneOptions(update),
                            "UpdateOneResult")

\* Collection::upsert_one
upsert_one ==
    \E upsert \in UpdateOps :
        update_one_internal("upsert_one", upsert, UpsertOneOptions(upsert),
                            "UpsertOneResult")

\* Collection::update_many
update_many ==
    \E update \in UpdateOps :
        update_many_internal("update_many", update, UpdateManyOptions(update))

\* Collection::upsert_many
upsert_many ==
    \E upsert \in UpdateOps :
        update_many_internal("upsert_many", upsert, UpsertManyOptions(upsert))

----------------------------------------------------------------------------
(* delete_one, delete_many, delete_entity, delete_entities                 *)

\* Operation values implementing Delete<T>: the filter, and an overriding
\* write concern if any.
DeleteOps ==
    [filter : UserFilters, options : {None}] \cup
    [filter : {AllFilter}, options : {Some("w: majority")}]

\* impl Delete<T> for Document: the document is the filter, the options are
\* the trait's default.
DocumentOp(document) == [filter |-> document, options |-> None]

\* Delete::filter
Delete_filter(query) == query.filter

\* Delete::options
Delete_options(query) ==
    IF query.options = None THEN "T::delete_options" ELSE Unwrap(query.options)

\* The requests delete_one sends to the store: one delete_one.
DeleteOneRequests(filter, write_concern) ==
    <<[op |-> "delete_one", filter |-> filter,
       write_concern |-> write_concern]>>

\* A mutant of delete_one_with that sends its request a second time.
delete_one_retrying(query) ==
    /\ requests' = <<[op |-> "delete_one", filter |-> Delete_filter(query),
                      write_concern |-> Delete_options(query)],
                     [op |-> "delete_one", filter |-> Delete_filter(query),
                      write_concern |-> Delete_options(query)]>>
    /\ StoreActs(DeleteOneContract(store, Delete_filter(query)),
                 DeleteReplies(OneCounts))
    /\ result' = DeleteOneOutcome(Unwrap(reply'))

\* The body of Collection::delete_one for a Delete<T> value.
delete_one_with(query) ==
    /\ requests' = DeleteOneRequests(Delete_filter(query), Delete_options(query))
    /\ StoreActs(DeleteOneContract(store, Delete_filter(query)),
                 DeleteReplies(OneCounts))
    /\ result' = DeleteOneOutcome(Unwrap(reply'))

\* The body of Collection::delete_many for a Delete<T> value.
delete_many_with(query) ==
    /\ requests' = <<[op |-> "delete_many", filter |-> Delete_filter(query),
                      write_concern |-> Delete_options(query)]>>
    /\ StoreActs(DeleteManyContract(store, Delete_filter(query)),
                 DeleteReplies(ManyCounts))
    /\ result' = DeleteManyOutcome(Unwrap(reply'))

\* Collection::delete_one
delete_one ==
    \E query \in DeleteOps :
        /\ call.method = "idle"
        /\ call' = [method |-> "delete_one", op |-> query]
        /\ delete_one_with(query)
        /\ UNCHANGED <<before, aside>>

\* Collection::delete_many
delete_many ==
    \E query \in DeleteOps :
        /\ call.method = "idle"
        /\ call' = [method |-> "delete_many", op |-> query]
        /\ delete_many_with(query)
        /\ UNCHANGED <<before, aside>>

\* `Error::new(MissingId, ...)` of delete_entity
DeleteEntityNoIdError == ErrorNew("MissingId")

\* `Error::new(MissingId, ...)` of delete_entities
DeleteEntitiesNoIdError == ErrorNew("MissingId")

\* Collection::delete_entity
delete_entity ==
    \E entity \in Entity :
        /\ call.method = "idle"
        /\ call' = [method |-> "delete_entity", entity |-> entity]
        /\ IF id(entity) = None
           THEN /\ requests' = <<>>
                /\ reply' = None
                /\ result' = DeleteEntityNoIdError
                /\ UNCHANGED store
           ELSE delete_one_with(DocumentOp(IdFilter(to_bson(Unwrap(id(entity))))))
        /\ UNCHANGED <<before, aside>>

\* Batches of entities handed to delete_entities; only their identifiers
\* matter to the call, so they all have the same body.
DeleteBatches ==
    UNION {[1 .. n -> {e \in Entity : e.body = "a"}] : n \in 0 .. MaxDocs}

\* Collection::delete_entities
delete_entities ==
    \E entities \in DeleteBatches :
        /\ call.method = "idle"
        /\ call' = [method |-> "delete_entities", entities |-> entities]
        /\ IF \E p \in DOMAIN entities : id(entities[p]) = None
           THEN /\ requests' = <<>>
                /\ reply' = None
                /\ result' = DeleteEntitiesNoIdError
                /\ UNCHANGED store
           ELSE delete_many_with(
                    DocumentOp(DeleteEntitiesCriterion(
                        [p \in DOMAIN entities |-> to_bson(Unwrap(id(entities[p])))])))
        /\ UNCHANGED <<before, aside>>

----------------------------------------------------------------------------
(* Queries: what a read returns, and find_one_and_replace.                 *)

\* The document the store holds under an identifier.
StoredDoc(st, i) == [_id |-> Some(to_bson(i)), body |-> Unwrap(st[i])]

\* A document that does not deserialize as T.
CorruptDoc == [_id |-> Some(BsonString(AnyId)), body |-> "a"]

\* The documents a reply may carry.
ReplyDocs ==
    {[_id |-> Some(to_bson(i)), body |-> b] : i \in Ids, b \in Bodies}
        \cup {CorruptDoc}

\* Bson::Null
BsonNull == [null |-> TRUE]

\* The transforms of operation values: the default, which returns its
\* argument verbatim; one that succeeds with Bson::Null; one that fails.
Transforms == {"verbatim", "null", "fails"}

\* Q::transform applied to a raw document.
transform_of(transform, raw) ==
    IF transform = "fails" THEN [ok |-> FALSE]
    ELSE [ok |-> TRUE, bson |-> IF transform = "null" THEN BsonNull ELSE raw]

\* from_bson::<Q::Output>, with Output = T: Bson::Null is not a T.
from_bson_output(bson) ==
    IF bson = BsonNull THEN [ok |-> FALSE]
    ELSE LET decoded == from_bson(Unwrap(bson._id)) IN
         IF decoded.ok
         THEN [ok |-> TRUE,
               value |-> [id |-> Some(decoded.uid), body |-> bson.body]]
         ELSE [ok |-> FALSE]

\* from_bson::<Option<Q::Output>>: Bson::Null is None, any other value is
\* Some of what it deserializes to.
from_bson_option_output(bson) ==
    IF bson = BsonNull THEN [ok |-> TRUE, value |-> None]
    ELSE LET decoded == from_bson_output(bson) IN
         IF decoded.ok
         THEN [ok |-> TRUE, value |-> Some(decoded.value)]
         ELSE [ok |-> FALSE]

\* FindOptions as a Query<T> value resolves them; max_time_ms, projection
\* and sort are the fields the find_one_and_* methods copy.
T_query_options == [max_time_ms |-> None, projection |-> None, sort |-> None]

QueryOptions ==
    {T_query_options,
     [max_time_ms |-> Some(1), projection |-> Some("body"), sort |-> Some("_id")]}

\* A mutant of QueryDefaultFilter: a filter that selects one document.
QueryDefaultFilterOne == IdFilter(to_bson(AnyId))

\* Query::filter when the operation value does not override it.
QueryDefaultFilter == AllFilter

\* Operation values implementing Query<T>: an overriding filter if any,
\* the options, and what Q::transform does.
QueryOps ==
    [filter : {None} \cup {Some(IdFilter(to_bson(i))) : i \in Ids},
     options : QueryOptions,
     transform : Transforms]

\* Query::filter
Query_filter(query) ==
    IF query.filter = None THEN QueryDefaultFilter ELSE Unwrap(query.filter)

\* Query::options
Query_options(query) == query.options

\* The raw replies to find_one and the find_one_and_* calls: the call
\* fails, or it returns an Option<Document>.
FoundReplies ==
    {[ok |-> FALSE]} \cup
    [ok : {TRUE}, found : {None} \cup {Some(d) : d \in ReplyDocs}]

\* The closure find_one and the find_one_and_* methods apply to the reply:
\* no document is Ok(None); a document is transformed, then deserialized
\* as an Option<Q::Output>.
FoundOutcome(rep, transform) ==
    IF ~rep.ok THEN ErrorWithCause("transport")
    ELSE IF rep.found = None THEN [tag |-> "Ok", found |-> None]
    ELSE LET transformed == transform_of(transform, Unwrap(rep.found)) IN
         IF ~transformed.ok THEN ErrorWithCause("transform")
         ELSE LET decoded == from_bson_option_output(transformed.bson) IN
              IF decoded.ok
              THEN [tag |-> "Ok", found |-> decoded.value]
              ELSE ErrorWithCause("bson_decoding")

\* By contract find_one returns one matching document, if there is one.
FindOneContract(st, filter) ==
    IF Matches(st, filter) = {}
    THEN {<<st, [ok |-> TRUE, found |-> None]>>}
    ELSE {<<st, [ok |-> TRUE, found |-> Some(StoredDoc(st, i))]>> :
            i \in Matches(st, filter)}

\* Collection::find_one
find_one ==
    \E query \in QueryOps :
        /\ call.method = "idle"
        /\ call' = [method |-> "find_one", op |-> query]
        /\ requests' = <<[op |-> "find_one", filter |-> Query_filter(query),
                          options |-> Query_options(query)]>>
        /\ StoreActs(FindOneContract(store, Query_filter(query)), FoundReplies)
        /\ result' = FoundOutcome(Unwrap(reply'), query.transform)
        /\ UNCHANGED <<before, aside>>

\* By contract find_one_and_delete removes one matching document, if there
\* is one, and returns it.
FindOneAndDeleteContract(st, filter) ==
    IF Matches(st, filter) = {}
    THEN {<<st, [ok |-> TRUE, found |-> None]>>}
    ELSE {<<[st EXCEPT ![i] = None],
            [ok |-> TRUE, found |-> Some(StoredDoc(st, i))]>> :
            i \in Matches(st, filter)}

\* A mutant of FindOneAndDeleteOptions that leaves the query's sort out.
FindOneAndDeleteOptionsUnsorted(query_options) ==
    [max_time_ms |-> query_options.max_time_ms,
     projection |-> query_options.projection,
     sort |-> None,
     write_concern |-> None]

\* The FindOneAndDeleteOptions find_one_and_delete builds from the query's
\* options.
FindOneAndDeleteOptions(query_options) ==
    [max_time_ms |-> query_options.max_time_ms,
     projection |-> query_options.projection,
     sort |-> query_options.sort,
     write_concern |-> None]

\* Collection::find_one_and_delete
find_one_and_delete ==
    \E query \in QueryOps :
        LET find_delete_options == FindOneAndDeleteOptions(Query_options(query)) IN
        /\ call.method = "idle"
        /\ call' = [method |-> "find_one_and_delete", op |-> query]
        /\ requests' = <<[op |-> "find_one_and_delete",
                          filter |-> Query_filter(query),
                          options |-> find_delete_options]>>
        /\ StoreActs(FindOneAndDeleteContract(store, Query_filter(query)),
                     FoundReplies)
        /\ result' = FoundOutcome(Unwrap(reply'), query.transform)
        /\ UNCHANGED <<before, aside>>

\* The sequences without repetition of at most MaxDocs members of a set.
DistinctSeqs(S) ==
    {c \in UNION {[1 .. n -> S] : n \in 0 .. MaxDocs} :
        \A p, q \in DOMAIN c : c[p] = c[q] => p = q}

\* The raw replies to mongodb::Collection::find: the call fails, or it
\* returns a cursor, here the documents it will yield: stored ones, in any
\* number and order, and possibly one that does not deserialize.
FindReplies(st) ==
    {[ok |-> FALSE]} \cup
    [ok : {TRUE},
     cursor : DistinctSeqs({StoredDoc(st, i) : i \in {j \in Ids : Present(st, j)}}
                            \cup {CorruptDoc})]

\* By contract the cursor yields every matching document once, in an
\* order of the store's choosing.
FindContract(st, filter) ==
    {<<st, [ok |-> TRUE, cursor |-> c]>> :
        c \in {d \in DistinctSeqs({StoredDoc(st, i) : i \in Matches(st, filter)}) :
                Len(d) = Cardinality(Matches(st, filter))}}

\* Cursor::from_cursor_and_transform: the raw cursor and the transform to
\* apply to each document it yields.
from_cursor_and_transform(crs, transform) ==
    [items |-> crs, transform |-> transform]

\* What iterating a Cursor yields: each raw document transformed, then
\* deserialized.
CursorYield(cursor) ==
    [p \in DOMAIN cursor.items |->
        LET transformed == transform_of(cursor.transform, cursor.items[p]) IN
        IF ~transformed.ok THEN ErrorWithCause("transform")
        ELSE LET decoded == from_bson_output(transformed.bson) IN
             IF decoded.ok
             THEN [tag |-> "Ok", value |-> decoded.value]
             ELSE ErrorWithCause("bson_decoding")]

\* The closures find_many applies to the store's reply.
FindManyOutcome(rep, transform) ==
    IF ~rep.ok THEN ErrorWithCause("transport")
    ELSE [tag |-> "Ok", cursor |-> from_cursor_and_transform(rep.cursor, transform)]

\* Collection::find_many
find_many ==
    \E query \in QueryOps :
        /\ call.method = "idle"
        /\ call' = [method |-> "find_many", op |-> query]
        /\ requests' = <<[op |-> "find", filter |-> Query_filter(query),
                          options |-> Query_options(query)]>>
        /\ StoreActs(FindContract(store, Query_filter(query)), FindReplies(store))
        /\ result' = FindManyOutcome(Unwrap(reply'), query.transform)
        /\ UNCHANGED <<before, aside>>

\* A mutant of CountDefaultFilter: a filter that selects one document.
CountDefaultFilterOne == IdFilter(to_bson(AnyId))

\* Count::filter when the operation value does not override it.
CountDefaultFilter == AllFilter

\* Operation values implementing Count<T>: an overriding filter if any,
\* and overriding CountOptions if any.
CountOps ==
    [filter : {None} \cup {Some(IdFilter(to_bson(i))) : i \in Ids},
     options : {None, Some("limit: 1")}]

\* Count::filter
Count_filter(query) ==
    IF query.filter = None THEN CountDefaultFilter ELSE Unwrap(query.filter)

\* Count::options
Count_options(query) ==
    IF query.options = None THEN "T::count_options" ELSE Unwrap(query.options)

\* The raw replies to mongodb::Collection::count: the call fails, or it
\* returns a signed magnitude.
CountReplies == {[ok |-> FALSE]} \cup [ok : {TRUE}, n : ManyCounts]

\* By contract the store counts the documents the filter matches.
CountContract(st, filter) ==
    {<<st, [ok |-> TRUE, n |-> Cardinality(Matches(st, filter))]>>}

\* The closures count applies to the store's reply.
CountOutcome(rep) ==
    IF ~rep.ok THEN ErrorWithCause("transport")
    ELSE LET n == int_to_usize_with_msg(rep.n) IN
         IF n.tag # "Ok" THEN n ELSE [tag |-> "Ok", count |-> n.raw]

\* The requests count sends to the store: one count.
CountRequests(query) ==
    <<[op |-> "count", filter |-> Count_filter(query),
       options |-> Count_options(query)]>>

\* Collection::count
count ==
    \E query \in CountOps :
        /\ call.method = "idle"
        /\ call' = [method |-> "count", op |-> query]
        /\ requests' = CountRequests(query)
        /\ StoreActs(CountContract(store, Count_filter(query)), CountReplies)
        /\ result' = CountOutcome(Unwrap(reply'))
        /\ UNCHANGED <<before, aside>>

\* What the store does, by contract, with find_one_and_replace and
\* find_one_and_update: one matching document gets the new body, and the
\* reply is that document before or after the change (before, unless told
\* otherwise); with nothing matching, an upsert inserts one document.
FindAndModifyContract(st, filter, body, upsert, return_document) ==
    LET after == return_document = Some("After")
        asked == upsert = Some(TRUE)
    IN
    IF Matches(st, filter) # {}
    THEN {<<[st EXCEPT ![i] = Some(body)],
            [ok |-> TRUE,
             found |-> Some(IF after
                            THEN StoredDoc([st EXCEPT ![i] = Some(body)], i)
                            ELSE StoredDoc(st, i))]>> :
            i \in Matches(st, filter)}
    ELSE IF asked
    THEN {<<[st EXCEPT ![i] = Some(body)],
            [ok |-> TRUE,
             found |-> IF after
                       THEN Some(StoredDoc([st EXCEPT ![i] = Some(body)], i))
                       ELSE None]>> :
            i \in UpsertTargets(st, filter)}
    ELSE {<<st, [ok |-> TRUE, found |-> None]>>}

\* A mutant of FindOneAndReplaceReturn: the document after the replacement.
FindOneAndReplaceReturnAfter == Some("After")

\* `return_document: Some(ReturnDocument::Before)`
FindOneAndReplaceReturn == Some("Before")

\* `upsert: Some(false)`
FindOneAndReplaceUpsert == Some(FALSE)

\* Collection::find_one_and_replace
find_one_and_replace ==
    \E query \in QueryOps, replacement \in Entity :
        LET query_options == Query_options(query)
            find_replace_options ==
                [return_document |-> FindOneAndReplaceReturn,
                 max_time_ms |-> query_options.max_time_ms,
                 projection |-> query_options.projection,
                 sort |-> query_options.sort,
                 upsert |-> FindOneAndReplaceUpsert]
            filter == Query_filter(query)
            doc == serialize_document(replacement)
        IN
        /\ call.method = "idle"
        /\ call' = [method |-> "find_one_and_replace", op |-> query,
                    entity |-> replacement]
        /\ requests' = <<[op |-> "find_one_and_replace", filter |-> filter,
                          doc |-> doc, options |-> find_replace_options]>>
        /\ StoreActs(FindAndModifyContract(store, filter, doc.body,
                                           find_replace_options.upsert,
                                           find_replace_options.return_document),
                     FoundReplies)
        /\ result' = FoundOutcome(Unwrap(reply'), query.transform)
        /\ UNCHANGED <<before, aside>>

\* Doc::find_and_update_options: FindOneAndUpdateOptions, of which the
\* upsert flag and the document to return matter here.
T_find_and_update_options == [upsert |-> None, return_document |-> None]

\* Operation values implementing FindAndUpdate<T>: a filter, the change to
\* make (here: the new body), the options, and what U::transform does.
FindAndUpdateOps ==
    [filter : UserFilters,
     change : Bodies,
     options : [upsert : {None, Some(FALSE), Some(TRUE)},
                return_document : {None, Some("After")}],
     transform : Transforms]

\* A mutant of FindAndUpdate_options: the facade clears the upsert flag, as
\* find_one_and_replace does.
FindAndUpdate_options_no_upsert(update) ==
    [update.options EXCEPT !.upsert = Some(FALSE)]

\* FindAndUpdate::options
FindAndUpdate_options(update) == update.options

\* Collection::find_one_and_update
find_one_and_update ==
    \E update \in FindAndUpdateOps :
        LET filter == update.filter
            change == update.change
            options == FindAndUpdate_options(update)
        IN
        /\ call.method = "idle"
        /\ call' = [method |-> "find_one_and_update", op |-> update]
        /\ requests' = <<[op |-> "find_one_and_update", filter |-> filter,
                          change |-> change, options |-> options]>>
        /\ StoreActs(FindAndModifyContract(store, filter, change,
                                           options.upsert,
                                           options.return_document),
                     FoundReplies)
        /\ result' = FoundOutcome(Unwrap(reply'), update.transform)
        /\ UNCHANGED <<before, aside>>

\* The raw replies to drop and create_indexes: the call fails or not.
UnitReplies == {[ok |-> FALSE], [ok |-> TRUE]}

\* `self.inner.drop().map_err(Into::into)`
DropOutcome(rep) ==
    IF ~rep.ok THEN ErrorWithCause("transport") ELSE [tag |-> "Ok"]

\* By contract drop removes every document.
DropContract(st) == {<<EmptyStore, [ok |-> TRUE]>>}

\* Collection::drop
drop ==
    /\ call.method = "idle"
    /\ call' = [method |-> "drop"]
    /\ requests' = <<[op |-> "drop"]>>
    /\ StoreActs(DropContract(store), UnitReplies)
    /\ result' = DropOutcome(Unwrap(reply'))
    /\ UNCHANGED <<before, aside>>

\* Doc::indexes of the document types tried: none (the default), or one.
IndexLists == {<<>>, <<"body_1">>}

\* `.map(drop).chain(...)` on the reply to create_indexes
CreateIndexesOutcome(rep) ==
    IF ~rep.ok THEN ErrorWithCause("transport") ELSE [tag |-> "Ok"]

\* Collection::create_indexes
create_indexes ==
    \E indexes \in IndexLists :
        /\ call.method = "idle"
        /\ call' = [method |-> "create_indexes", indexes |-> indexes]
        /\ IF indexes = <<>>
           THEN /\ requests' = <<>>
                /\ reply' = None
                /\ result' = [tag |-> "Ok"]
                /\ UNCHANGED store
           ELSE /\ requests' = <<[op |-> "create_indexes", indexes |-> indexes]>>
                /\ StoreActs({}, UnitReplies)
                /\ result' = CreateIndexesOutcome(Unwrap(reply'))
        /\ UNCHANGED <<before, aside>>

\* Operation values implementing Distinct<T> (FIELD is the body): an
\* overriding filter if any, whether Q::transform returns its argument or
\* fails, and overriding options if any.
DistinctOps ==
    [filter : {None} \cup {Some(IdFilter(to_bson(i))) : i \in Ids},
     transform : {"verbatim", "fails"}, options : {None}] \cup
    [filter : {None}, transform : {"verbatim"}, options : {Some("override")}]

\* Distinct::options
Distinct_options(query) ==
    IF query.options = None THEN "T::distinct_options" ELSE Unwrap(query.options)

\* Distinct::filter
Distinct_filter(query) ==
    IF query.filter = None THEN AllFilter ELSE Unwrap(query.filter)

\* The raw replies to mongodb::Collection::distinct: the call fails, or
\* it returns the values: bodies, and possibly one that does not
\* deserialize as Q::Output.
DistinctReplies ==
    {[ok |-> FALSE]} \cup
    [ok : {TRUE}, values : DistinctSeqs(Bodies \cup {"corrupt"})]

\* By contract the store returns each value of the field once.
DistinctContract(st, filter) ==
    {<<st, [ok |-> TRUE, values |-> c]>> :
        c \in {d \in DistinctSeqs({Unwrap(st[i]) : i \in Matches(st, filter)}) :
                {d[p] : p \in DOMAIN d} = {Unwrap(st[i]) : i \in Matches(st, filter)}}}

\* The closures distinct applies to the store's reply: every value is
\* transformed, then deserialized; the first failure fails the call.
DistinctOutcome(rep, transform) ==
    IF ~rep.ok THEN ErrorWithCause("transport")
    ELSE IF rep.values # <<>> /\ transform = "fails"
    THEN ErrorWithCause("transform")
    ELSE IF \E p \in DOMAIN rep.values : rep.values[p] \notin Bodies
    THEN ErrorWithCause("bson_decoding")
    ELSE [tag |-> "Ok", values |-> rep.values]

\* Collection::distinct
distinct ==
    \E query \in DistinctOps :
        /\ call.method = "idle"
        /\ call' = [method |-> "distinct", op |-> query]
        /\ requests' = <<[op |-> "distinct", field |-> "body",
                          filter |-> Distinct_filter(query),
                          options |-> Distinct_options(query)]>>
        /\ StoreActs(DistinctContract(store, Distinct_filter(query)),
                     DistinctReplies)
        /\ result' = DistinctOutcome(Unwrap(reply'), query.transform)
        /\ UNCHANGED <<before, aside>>

\* Operation values implementing Pipeline<T>: the stages, whether
\* P::transform returns its argument or fails, and overriding options if
\* any.
PipelineOps ==
    [stages : {<<>>, <<"$match">>}, transform : {"verbatim", "fails"},
     options : {None}] \cup
    [stages : {<<>>}, transform : {"verbatim"}, options : {Some("override")}]

\* Pipeline::options
Pipeline_options(pipeline) ==
    IF pipeline.options = None THEN "T::aggregate_options"
    ELSE Unwrap(pipeline.options)

\* The closures aggregate applies to the store's reply.
AggregateOutcome(rep, transform) ==
    IF ~rep.ok THEN ErrorWithCause("transport")
    ELSE [tag |-> "Ok", cursor |-> from_cursor_and_transform(rep.cursor, transform)]

\* Collection::aggregate
aggregate ==
    \E pipeline \in PipelineOps :
        /\ call.method = "idle"
        /\ call' = [method |-> "aggregate", op |-> pipeline]
        /\ requests' = <<[op |-> "aggregate", stages |-> pipeline.stages,
                          options |-> Pipeline_options(pipeline)]>>
        /\ StoreActs({}, FindReplies(store))
        /\ result' = AggregateOutcome(Unwrap(reply'), pipeline.transform)
        /\ UNCHANGED <<before, aside>>

\* What a message says: whether it names the document type (T::NAME) and
\* whether it renders the operation value.
Says(type_name, operation) == [type_name |-> type_name, operation |-> operation]

\* The message of the error a facade method returns, by the place in the
\* method that makes the error: `replied` tells whether the store was
\* asked at all.
ErrorMessage(method, replied, error) ==
    LET remote == error.cause \in {"transport", "write_exception",
                                   "bulk_write_exception"}
    IN
    CASE method = "drop" -> Says(FALSE, FALSE)
      [] method = "create_indexes" -> Says(TRUE, FALSE)
      [] method \in {"insert_one", "insert_many"} -> Says(TRUE, FALSE)
      [] method \in {"count", "aggregate", "find_many", "find_one",
                     "find_one_and_delete", "find_one_and_replace",
                     "find_one_and_update"} ->
            IF remote THEN Says(TRUE, TRUE) ELSE Says(FALSE, FALSE)
      [] method = "distinct" ->
            IF remote THEN Says(TRUE, TRUE)
            ELSE IF error.cause = "bson_decoding" THEN Says(TRUE, FALSE)
            ELSE Says(FALSE, FALSE)
      [] method \in {"replace_entity", "upsert_entity"} ->
            IF ~replied THEN Says(TRUE, FALSE)
            ELSE IF remote THEN Says(TRUE, TRUE)
            ELSE Says(FALSE, FALSE)
      [] method \in {"update_one", "upsert_one", "update_many", "upsert_many",
                     "delete_one", "delete_many"} ->
            IF remote THEN Says(TRUE, TRUE) ELSE Says(FALSE, FALSE)
      [] method = "delete_entity" ->
            IF ~replied THEN Says(TRUE, FALSE) ELSE Says(TRUE, TRUE)
      [] method = "delete_entities" ->
            IF ~replied THEN Says(FALSE, TRUE)
            ELSE IF remote THEN Says(TRUE, TRUE)
            ELSE Says(TRUE, FALSE)

----------------------------------------------------------------------------
(* The caller.                                                             *)

Idle == [method |-> "idle"]

\* The outcome of a call is transient: the caller consumes it and the
\* facade is ready for the next call.
Consume ==
    /\ call.method # "idle"
    /\ call' = Idle
    /\ requests' = <<>>
    /\ reply' = None
    /\ result' = [tag |-> "None"]
    /\ before' = store
    /\ UNCHANGED store

Discard == Consume /\ UNCHANGED aside

Init ==
    /\ store = EmptyStore
    /\ before = EmptyStore
    /\ call = Idle
    /\ requests = <<>>
    /\ reply = None
    /\ result = [tag |-> "None"]
    /\ extdoc = <<>>
    /\ tally = [inserted |-> 0, deleted |-> 0]

Next ==
    \/ insert_one
    \/ insert_many
    \/ replace_entity
    \/ upsert_entity
    \/ update_one
    \/ upsert_one
    \/ update_many
    \/ upsert_many
    \/ delete_entity
    \/ delete_entities
    \/ delete_one
    \/ delete_many
    \/ find_one_and_replace
    \/ count
    \/ find_many
    \/ find_one
    \/ find_one_and_delete
    \/ find_one_and_update
    \/ drop
    \/ create_indexes
    \/ distinct
    \/ aggregate
    \/ Discard

Spec == Init /\ [][Next]_vars

----------------------------------------------------------------------------
(* What the last call was, for the properties below.                       *)

Called(method) == call.method = method

\* The number of entities the last insert_many was given.
NDocs == Len(call.entities)

\* The identifier of the entity at a (0-based) position of the batch.
BatchId(p) == Unwrap(call.entities[p + 1].id)

\* The positions of the batch whose documents the store inserted.
InsertedPositions ==
    {p \in 0 .. NDocs - 1 : ~Present(before, BatchId(p)) /\ Present(store, BatchId(p))}

\* The identifiers the store's insert_many reply reports, by position.
ReportedIds == unwrap_or_default(Unwrap(reply).inserted_ids)

\* The store answered the last call at all, and without failing the call.
Replied == reply # None /\ Unwrap(reply).ok

----------------------------------------------------------------------------
\* C1: insert_many called with zero entities returns Ok with an empty
\* position-to-identifier map and issues no request to the store, whatever
\* the store holds; the store is left as it was.
C1_EmptyInsertMany ==
    (Called("insert_many") /\ NDocs = 0) =>
        /\ result = [tag |-> "Ok", ids |-> <<>>]
        /\ requests = <<>>
        /\ reply = None
        /\ store = before

\* C1 witness: insert_many of zero entities returned, on a non-empty store.
C1_Witness ==
    /\ Called("insert_many")
    /\ NDocs = 0
    /\ store # EmptyStore
    /\ result.tag = "Ok"

\* C2: when the store reports a bulk write exception after inserting only
\* k < N of the N > 0 documents, and reports the identifiers of exactly the
\* inserted positions, insert_many returns Err and the attached
\* InsertManyErrorContext has one entry per inserted position and no other:
\* the decoded identifier, or the raw value if it does not decode.
C2_PartialInsertContext ==
    (/\ Called("insert_many")
     /\ NDocs > 0
     /\ Replied
     /\ Unwrap(reply).bulk_write_exception
     /\ Cardinality(InsertedPositions) < NDocs
     /\ DOMAIN ReportedIds = InsertedPositions) =>
        /\ result.tag = "Err"
        /\ result.cause = "bulk_write_exception"
        /\ result.context # None
        /\ DOMAIN Unwrap(result.context) = InsertedPositions
        /\ \A p \in InsertedPositions :
            LET entry == Unwrap(result.context)[p] IN
            IF ReportedIds[p].kind = "ObjectId"
            THEN entry = [ok |-> TRUE, uid |-> ReportedIds[p].val]
            ELSE entry = [ok |-> FALSE, raw |-> ReportedIds[p]]

\* C2 witness: of two documents the store inserted the first only, said so
\* with an exception, and reported an identifier that does not decode.
C2_Witness ==
    /\ Called("insert_many")
    /\ NDocs = 2
    /\ Replied
    /\ Unwrap(reply).bulk_write_exception
    /\ InsertedPositions = {0}
    /\ DOMAIN ReportedIds = {0}
    /\ ReportedIds[0].kind = "String"
    /\ result.tag = "Err"
    /\ DOMAIN Unwrap(result.context) = {0}

\* C3: whenever insert_many returns Ok for N > 0 entities, the returned map
\* has exactly N entries, its keys are exactly the positions 0..N-1, and
\* every value is a decoded identifier.
C3_OkMapCoversPositions ==
    (Called("insert_many") /\ NDocs > 0 /\ result.tag = "Ok") =>
        /\ DOMAIN result.ids = 0 .. NDocs - 1
        /\ \A p \in DOMAIN result.ids : result.ids[p] \in Ids

\* C4: when the reply carries no bulk write exception but reports a number
\* of identifiers different from N (none at all included), insert_many
\* returns an Err of kind MissingId whose context is exactly the mapping
\* built from the reported identifiers.
C4_CountMismatchIsMissingId ==
    (/\ Called("insert_many")
     /\ NDocs > 0
     /\ Replied
     /\ ~Unwrap(reply).bulk_write_exception
     /\ Cardinality(DOMAIN ReportedIds) # NDocs) =>
        /\ result.tag = "Err"
        /\ result.kind = "MissingId"
        /\ result.context = Some([p \in DOMAIN ReportedIds |-> from_bson(ReportedIds[p])])

\* C5: when the reply carries no bulk write exception and reports exactly N
\* identifiers, at least one of which does not decode, insert_many returns
\* an Err of kind BsonDecoding whose context has all N positions, each with
\* the decoded identifier or the raw value.
C5_UndecodableIsBsonDecoding ==
    (/\ Called("insert_many")
     /\ NDocs > 0
     /\ Replied
     /\ ~Unwrap(reply).bulk_write_exception
     /\ Cardinality(DOMAIN ReportedIds) = NDocs
     /\ \E p \in DOMAIN ReportedIds : ReportedIds[p].kind # "ObjectId") =>
        /\ result.tag = "Err"
        /\ result.kind = "BsonDecoding"
        /\ result.context # None
        /\ DOMAIN Unwrap(result.context) = 0 .. NDocs - 1
        /\ \A p \in DOMAIN Unwrap(result.context) :
            Unwrap(result.context)[p] = from_bson(ReportedIds[p])

WriteMethods ==
    {"insert_one", "insert_many", "replace_entity", "upsert_entity",
     "update_one", "upsert_one", "update_many", "upsert_many",
     "delete_one", "delete_many", "delete_entity", "delete_entities"}

\* The reply to the last call carries an embedded (bulk) write exception.
CarriesWriteException ==
    /\ Replied
    /\ IF Called("insert_many")
       THEN Unwrap(reply).bulk_write_exception
       ELSE Unwrap(reply).write_exception

\* C6: no write method swallows a write exception: if the reply is an outer
\* success that carries an embedded (bulk) write exception, the method
\* returns Err, whatever counts or identifiers the reply also carries.
C6_WriteExceptionIsErr ==
    (call.method \in WriteMethods /\ CarriesWriteException) => result.tag = "Err"

\* C7: every call ends by returning Ok or Err; none panics, whatever the
\* store replies.
C7_NeverPanics ==
    ~Called("idle") => result.tag \in {"Ok", "Err"}

\* The entity of the last *_entity call has an `_id` in its serialized form.
EntityHasId == serialize_document(call.entity)._id # None

\* The identifier of that entity.
EntityId == Unwrap(call.entity.id)

\* The store kept its contract on the last call's replace_one request:
\* it did what the request asked and reported what it did.
StoreKeptReplaceOne ==
    /\ reply # None
    /\ Len(requests) = 1
    /\ requests[1].op = "replace_one"
    /\ <<store, Unwrap(reply)>> \in
        WriteOneContract(before, requests[1].filter, requests[1].doc.body,
                         requests[1].upsert)

\* The store kept its contract on the last call's delete_one request.
StoreKeptDeleteOne ==
    /\ reply # None
    /\ Len(requests) = 1
    /\ requests[1].op = "delete_one"
    /\ <<store, Unwrap(reply)>> \in DeleteOneContract(before, requests[1].filter)

\* C8: replace_entity and upsert_entity on an entity whose serialized form
\* has no `_id` return an Err of kind MissingId and send nothing to the
\* store, whose contents stay as they were.
C8_NoIdNoRequest ==
    ((Called("replace_entity") \/ Called("upsert_entity")) /\ ~EntityHasId) =>
        /\ result.tag = "Err"
        /\ result.kind = "MissingId"
        /\ requests = <<>>
        /\ reply = None
        /\ store = before

\* C8 witness: upsert_entity of an entity without `_id` failed, on a
\* non-empty store.
C8_Witness ==
    /\ Called("upsert_entity")
    /\ ~EntityHasId
    /\ store # EmptyStore
    /\ result.tag = "Err"

\* C9: with a store that keeps its contract and no stored document under
\* the entity's identifier, replace_entity issues replace_one with
\* upsert=false, leaves the store unchanged and returns Ok with
\* matched=false and modified=false, while upsert_entity issues replace_one
\* with upsert=true, inserts the document and returns Ok with upserted_id
\* equal to the entity's identifier; when a document with that identifier
\* exists, upsert_entity returns upserted_id absent.
C9_ReplaceVersusUpsert ==
    /\ (Called("replace_entity") /\ EntityHasId /\ reply # None) =>
            /\ Len(requests) = 1
            /\ requests[1].op = "replace_one"
            /\ requests[1].filter = IdFilter(to_bson(EntityId))
            /\ requests[1].upsert = FALSE
    /\ (Called("upsert_entity") /\ EntityHasId /\ reply # None) =>
            /\ Len(requests) = 1
            /\ requests[1].op = "replace_one"
            /\ requests[1].filter = IdFilter(to_bson(EntityId))
            /\ requests[1].upsert = TRUE
    /\ (/\ Called("replace_entity")
        /\ EntityHasId
        /\ ~Present(before, EntityId)
        /\ StoreKeptReplaceOne) =>
            /\ store = before
            /\ result = [tag |-> "Ok", update |-> [matched |-> FALSE, modified |-> FALSE]]
    /\ (/\ Called("upsert_entity")
        /\ EntityHasId
        /\ ~Present(before, EntityId)
        /\ StoreKeptReplaceOne) =>
            /\ store = [before EXCEPT ![EntityId] = Some(call.entity.body)]
            /\ result.tag = "Ok"
            /\ result.update.upserted_id = Some(EntityId)
    /\ (/\ Called("upsert_entity")
        /\ EntityHasId
        /\ Present(before, EntityId)
        /\ StoreKeptReplaceOne) =>
            /\ result.tag = "Ok"
            /\ result.update.upserted_id = None

\* C9 witness: upsert_entity of an entity whose identifier was not stored,
\* next to another stored document, inserted it and reported the identifier.
C9_Witness ==
    /\ Called("upsert_entity")
    /\ EntityHasId
    /\ ~Present(before, EntityId)
    /\ before # EmptyStore
    /\ StoreKeptReplaceOne
    /\ Present(store, EntityId)
    /\ result.tag = "Ok"
    /\ result.update.upserted_id = Some(EntityId)

\* C10: delete_entity on an entity without identifier returns an Err of
\* kind MissingId and sends nothing to the store.  On an entity with an
\* identifier, and a store that keeps its contract, it returns Ok(true)
\* iff a document with that identifier was stored before the call, no such
\* document remains afterwards and every other document is untouched; when
\* there was none it returns Ok(false) and the store is unchanged.
C10_DeleteEntity ==
    /\ (Called("delete_entity") /\ id(call.entity) = None) =>
            /\ result.tag = "Err"
            /\ result.kind = "MissingId"
            /\ requests = <<>>
            /\ reply = None
            /\ store = before
    /\ (Called("delete_entity") /\ id(call.entity) # None) =>
            /\ Len(requests) = 1
            /\ requests[1].op = "delete_one"
            /\ requests[1].filter = IdFilter(to_bson(EntityId))
    /\ (Called("delete_entity") /\ id(call.entity) # None /\ StoreKeptDeleteOne) =>
            /\ result.tag = "Ok"
            /\ result.flag <=> Present(before, EntityId)
            /\ store = [before EXCEPT ![EntityId] = None]
            /\ ~Present(before, EntityId) => (result.flag = FALSE /\ store = before)

\* C10 witness: delete_entity removed a stored document and returned true,
\* leaving another document in place.
C10_Witness ==
    /\ Called("delete_entity")
    /\ id(call.entity) # None
    /\ Present(before, EntityId)
    /\ StoreKeptDeleteOne
    /\ result = [tag |-> "Ok", flag |-> TRUE]
    /\ ~Present(store, EntityId)
    /\ store # EmptyStore

\* The only request of the last call.
Request == requests[1]

\* The store kept its contract on the last call's find_one_and_replace
\* request: it did what the request's options asked, and replied so.
StoreKeptFindOneAndReplace ==
    /\ reply # None
    /\ Len(requests) = 1
    /\ Request.op = "find_one_and_replace"
    /\ <<store, Unwrap(reply)>> \in
        FindAndModifyContract(before, Request.filter, Request.doc.body,
                              Request.options.upsert,
                              Request.options.return_document)

\* The entity a stored document deserializes to.
EntityAt(st, i) == [id |-> Some(i), body |-> Unwrap(st[i])]

\* C11: find_one_and_replace always asks for the document as it was before
\* the replacement and disables upsert, whatever the query's options are.
\* With a store that keeps its contract (and a transform that returns its
\* argument): on a match it returns the matched document as it was before
\* the replacement; when nothing matches it returns Ok(None) and the store
\* is left as it was.
C11_FindOneAndReplaceBefore ==
    Called("find_one_and_replace") =>
        /\ Len(requests) = 1
        /\ Request.op = "find_one_and_replace"
        /\ Request.options.return_document = Some("Before")
        /\ Request.options.upsert = Some(FALSE)
        /\ (StoreKeptFindOneAndReplace /\ call.op.transform = "verbatim") =>
            IF Matches(before, Request.filter) # {}
            THEN \E i \in Matches(before, Request.filter) :
                    /\ result = [tag |-> "Ok", found |-> Some(EntityAt(before, i))]
                    /\ store = [before EXCEPT ![i] = Some(call.entity.body)]
            ELSE /\ result = [tag |-> "Ok", found |-> None]
                 /\ store = before

\* C11 witness: find_one_and_replace, with options of the query's own,
\* replaced a document by one with another body and returned the old one.
C11_Witness ==
    /\ Called("find_one_and_replace")
    /\ call.op.options # T_query_options
    /\ call.op.transform = "verbatim"
    /\ StoreKeptFindOneAndReplace
    /\ \E i \in Matches(before, Request.filter) :
        /\ before[i] # Some(call.entity.body)
        /\ store[i] = Some(call.entity.body)
        /\ result = [tag |-> "Ok", found |-> Some(EntityAt(before, i))]

\* The store kept its contract on the last call's update_one or
\* update_many request.
StoreKeptUpdate ==
    /\ reply # None
    /\ Len(requests) = 1
    /\ \/ /\ Request.op = "update_one"
          /\ <<store, Unwrap(reply)>> \in
                WriteOneContract(before, Request.filter, Request.change,
                                 Request.upsert)
       \/ /\ Request.op = "update_many"
          /\ <<store, Unwrap(reply)>> \in
                WriteManyContract(before, Request.filter, Request.change,
                                  Request.upsert)

\* C12: update_one and update_many always issue their write with
\* upsert=false, upsert_one and upsert_many with upsert=true, whatever the
\* operation value's options() returns; so, with a store that keeps its
\* contract, update_one and update_many add no document to the store when
\* the filter matches nothing.
C12_UpsertFlagFollowsMethod ==
    /\ (Called("update_one") \/ Called("update_many")) =>
            /\ Len(requests) = 1
            /\ Request.op = call.method
            /\ Request.upsert = FALSE
    /\ (Called("upsert_one") \/ Called("upsert_many")) =>
            /\ Len(requests) = 1
            /\ Request.op = (IF Called("upsert_one") THEN "update_one" ELSE "update_many")
            /\ Request.upsert = TRUE
    /\ (/\ Called("update_one") \/ Called("update_many")
        /\ StoreKeptUpdate
        /\ Matches(before, call.op.filter) = {}) =>
            /\ store = before
            /\ result.tag = "Ok"

\* C12 witness: update_one, with a write concern of the operation's own
\* and a filter that matched nothing, left a non-empty store as it was.
C12_Witness ==
    /\ Called("update_one")
    /\ call.op.options # None
    /\ StoreKeptUpdate
    /\ Matches(before, call.op.filter) = {}
    /\ before # EmptyStore
    /\ store = before
    /\ result = [tag |-> "Ok", update |-> [matched |-> FALSE, modified |-> FALSE]]

\* The store kept its contract on the last call's find request.
StoreKeptFind ==
    /\ reply # None
    /\ Len(requests) = 1
    /\ Request.op = "find"
    /\ <<store, Unwrap(reply)>> \in FindContract(before, Request.filter)

\* The identifiers of the documents in the collection.
StoredIds == {i \in Ids : Present(store, i)}

\* C14: for a Query<T> value that keeps the default filter (and the default
\* transform), and a store that keeps its contract, find_many yields
\* exactly one item per document currently in the collection: as many
\* items as documents, every stored document among them, in any order.
C14_FindManyYieldsAll ==
    (/\ Called("find_many")
     /\ call.op.filter = None
     /\ call.op.transform = "verbatim"
     /\ StoreKeptFind) =>
        /\ result.tag = "Ok"
        /\ Len(CursorYield(result.cursor)) = Cardinality(StoredIds)
        /\ \A i \in StoredIds :
            \E p \in DOMAIN CursorYield(result.cursor) :
                CursorYield(result.cursor)[p] =
                    [tag |-> "Ok", value |-> EntityAt(store, i)]

\* C14 witness: find_many with the default filter, on a collection of two
\* documents, yielded the higher identifier first.
C14_Witness ==
    /\ Called("find_many")
    /\ call.op.filter = None
    /\ call.op.transform = "verbatim"
    /\ StoreKeptFind
    /\ Cardinality(StoredIds) = 2
    /\ result.tag = "Ok"
    /\ Len(CursorYield(result.cursor)) = 2
    /\ Unwrap(CursorYield(result.cursor)[1].value.id) >
        Unwrap(CursorYield(result.cursor)[2].value.id)

\* The store kept its contract on the last call's find_one_and_update
\* request.
StoreKeptFindOneAndUpdate ==
    /\ reply # None
    /\ Len(requests) = 1
    /\ Request.op = "find_one_and_update"
    /\ <<store, Unwrap(reply)>> \in
        FindAndModifyContract(before, Request.filter, Request.change,
                              Request.options.upsert,
                              Request.options.return_document)

\* The methods of the facade.
FacadeMethods ==
    WriteMethods \cup
    {"drop", "create_indexes", "count", "distinct", "aggregate", "find_one",
     "find_many", "find_one_and_delete", "find_one_and_replace",
     "find_one_and_update"}

\* The methods that are given no operation value.
MethodsWithoutOperation == {"drop", "create_indexes"}

\* C17: every Err a facade method returns carries a message that names the
\* collection's document type and (where the method is given an operation
\* value) renders that value, on remote-call failures and on transform and
\* decode failures alike.
C17_ErrorsNameTypeAndOperation ==
    (call.method \in FacadeMethods /\ result.tag = "Err") =>
        LET message == ErrorMessage(call.method, reply # None, result) IN
        /\ message.type_name
        /\ call.method \notin MethodsWithoutOperation => message.operation

\* The last call returned before it contacted the store: an entity lacks
\* its identifier, insert_many was given no entity, or create_indexes no
\* index.
ReturnsEarly ==
    \/ /\ call.method \in {"replace_entity", "upsert_entity", "delete_entity"}
       /\ id(call.entity) = None
    \/ /\ Called("delete_entities")
       /\ \E p \in DOMAIN call.entities : id(call.entities[p]) = None
    \/ /\ Called("insert_many")
       /\ NDocs = 0
    \/ /\ Called("create_indexes")
       /\ call.indexes = <<>>

\* C18: every facade call issues at most one request to the store; exactly
\* one unless it returns before contacting the store; and when the request
\* fails, the call returns Err without another request.
C18_OneRequestNoRetry ==
    call.method \in FacadeMethods =>
        /\ Len(requests) = (IF ReturnsEarly THEN 0 ELSE 1)
        /\ ReturnsEarly <=> reply = None
        /\ (reply # None /\ ~Unwrap(reply).ok) => result.tag = "Err"

\* C18 witness: the one request of delete_entities failed and the call
\* returned Err.
C18_Witness ==
    /\ Called("delete_entities")
    /\ Len(requests) = 1
    /\ reply # None
    /\ ~Unwrap(reply).ok
    /\ result.tag = "Err"

\* C20: find_one_and_update forwards the operation value's options to the
\* store unchanged.  With a store that keeps its contract (and a transform
\* that returns its argument): when nothing matches, a document is inserted
\* exactly when the options set upsert; on a match, the document returned
\* is the one before the update unless the options ask for the one after.
C20_FindOneAndUpdateForwardsOptions ==
    Called("find_one_and_update") =>
        /\ Len(requests) = 1
        /\ Request.op = "find_one_and_update"
        /\ Request.filter = call.op.filter
        /\ Request.change = call.op.change
        /\ Request.options = call.op.options
        /\ (StoreKeptFindOneAndUpdate /\ call.op.transform = "verbatim") =>
            IF Matches(before, call.op.filter) = {}
            THEN /\ (store # before) <=> (call.op.options.upsert = Some(TRUE))
                 /\ result.tag = "Ok"
                 /\ result.found # None <=>
                        /\ call.op.options.upsert = Some(TRUE)
                        /\ call.op.options.return_document = Some("After")
            ELSE \E i \in Matches(before, call.op.filter) :
                    /\ store = [before EXCEPT ![i] = Some(call.op.change)]
                    /\ result =
                        [tag |-> "Ok",
                         found |-> Some(IF call.op.options.return_document = Some("After")
                                        THEN EntityAt(store, i)
                                        ELSE EntityAt(before, i))]

\* C20 witness: find_one_and_update with upsert set and the document after
\* the update asked for, on a filter that matched nothing, inserted a
\* document and returned it.
C20_Witness ==
    /\ Called("find_one_and_update")
    /\ call.op.options = [upsert |-> Some(TRUE), return_document |-> Some("After")]
    /\ call.op.transform = "verbatim"
    /\ StoreKeptFindOneAndUpdate
    /\ Matches(before, call.op.filter) = {}
    /\ store # before
    /\ result.tag = "Ok"
    /\ result.found # None

\* C21: insert_one reads the store's reply in this order: a write exception
\* makes it return Err with that exception as cause, even when an inserted
\* identifier is reported too; otherwise a reported identifier makes it
\* return Ok(id) when it decodes as Uid<T> and Err when it does not;
\* otherwise (neither of them) it returns an Err of kind MissingId.
C21_InsertOneReplyOrder ==
    (Called("insert_one") /\ reply # None /\ Unwrap(reply).ok) =>
        LET rep == Unwrap(reply) IN
        /\ rep.write_exception =>
                /\ result.tag = "Err"
                /\ result.cause = "write_exception"
        /\ (~rep.write_exception /\ rep.inserted_id # None) =>
                IF \E i \in Ids : Unwrap(rep.inserted_id) = to_bson(i)
                THEN /\ result.tag = "Ok"
                     /\ to_bson(result.id) = Unwrap(rep.inserted_id)
                ELSE result.tag = "Err"
        /\ (~rep.write_exception /\ rep.inserted_id = None) =>
                /\ result.tag = "Err"
                /\ result.kind = "MissingId"

\* C21 witness: the reply to insert_one carried a write exception and an
\* inserted identifier that decodes, and the call returned the exception.
C21_Witness ==
    /\ Called("insert_one")
    /\ reply # None
    /\ Unwrap(reply).ok
    /\ Unwrap(reply).write_exception
    /\ \E i \in Ids : Unwrap(reply).inserted_id = Some(to_bson(i))
    /\ result.tag = "Err"
    /\ result.cause = "write_exception"

\* The store kept its contract on the last call's delete_many request.
StoreKeptDeleteMany ==
    /\ reply # None
    /\ Len(requests) = 1
    /\ Request.op = "delete_many"
    /\ <<store, Unwrap(reply)>> \in DeleteManyContract(before, Request.filter)

\* The identifiers of the entities given to delete_entities.
GivenIds ==
    {Unwrap(id(call.entities[p])) :
        p \in {r \in DOMAIN call.entities : id(call.entities[r]) # None}}

\* C22: delete_entities fails with MissingId and sends nothing to the store
\* (so nothing is deleted) if any given entity lacks an identifier.
\* Otherwise it sends one delete_many whose filter selects exactly the given
\* identifiers; with a store that keeps its contract it returns the number
\* of documents removed, which is at most the number of distinct identifiers
\* given, and which is 0 with the store unchanged for an empty input.
C22_DeleteEntities ==
    Called("delete_entities") =>
        IF \E p \in DOMAIN call.entities : id(call.entities[p]) = None
        THEN /\ result.tag = "Err"
             /\ result.kind = "MissingId"
             /\ requests = <<>>
             /\ reply = None
             /\ store = before
        ELSE /\ Len(requests) = 1
             /\ Request.op = "delete_many"
             /\ Request.filter.kind = "in"
             /\ {Request.filter.ids[p] : p \in DOMAIN Request.filter.ids}
                    = {to_bson(i) : i \in GivenIds}
             /\ StoreKeptDeleteMany =>
                    /\ result.tag = "Ok"
                    /\ result.count =
                        Cardinality({i \in GivenIds : Present(before, i)})
                    /\ result.count <= Cardinality(GivenIds)
                    /\ store = [i \in Ids |->
                                    IF i \in GivenIds THEN None ELSE before[i]]
                    /\ call.entities = <<>> =>
                            (result.count = 0 /\ store = before)

\* C22 witness: delete_entities was given the same identifier twice; it
\* removed that one document, left another in place and returned 1.
C22_Witness ==
    /\ Called("delete_entities")
    /\ StoreKeptDeleteMany
    /\ Len(call.entities) > Cardinality(GivenIds)
    /\ result.tag = "Ok"
    /\ result.count = 1
    /\ store # before
    /\ \E i \in Ids : Present(store, i)

\* The store kept its contract on the last call's find_one request.
StoreKeptFindOne ==
    /\ reply # None
    /\ Len(requests) = 1
    /\ Request.op = "find_one"
    /\ <<store, Unwrap(reply)>> \in FindOneContract(before, Request.filter)

\* C23: find_one turns the absence of a matching document into Ok(None),
\* never into an error, and returns Ok(Some(value)) whenever the store
\* found a document and transform and decoding succeed; so with a
\* successful transform the result is None exactly when the store reported
\* no matching document, and (the store keeping its contract) exactly when
\* no stored document matches.
C23_FindOneNoneIffNoMatch ==
    (Called("find_one") /\ reply # None /\ Unwrap(reply).ok) =>
        LET rep == Unwrap(reply) IN
        /\ rep.found = None => result = [tag |-> "Ok", found |-> None]
        /\ (rep.found # None /\ result.tag = "Ok") => result.found # None
        /\ call.op.transform # "fails" =>
                (result = [tag |-> "Ok", found |-> None] <=> rep.found = None)
        /\ (StoreKeptFindOne /\ call.op.transform # "fails") =>
                (result = [tag |-> "Ok", found |-> None]
                    <=> Matches(before, Request.filter) = {})

\* C25: replace_entity and upsert_entity overwrite the whole document: the
\* request is a replace_one that carries every field of the serialized
\* entity but `_id`, and after a successful call that matched or upserted,
\* with a store that keeps its contract, the document stored under the
\* entity's identifier has the entity's fields and nothing else, and every
\* other document of the collection is as it was.
C25_EntityWritesOverwrite ==
    ((Called("replace_entity") \/ Called("upsert_entity"))
        /\ EntityHasId /\ StoreKeptReplaceOne /\ result.tag = "Ok") =>
        /\ Request.op = "replace_one"
        /\ Request.doc = [_id |-> None, body |-> call.entity.body]
        /\ (\/ result.update.matched
            \/ (Called("upsert_entity") /\ result.update.upserted_id # None)) =>
                /\ Present(store, EntityId)
                /\ EntityAt(store, EntityId) = call.entity
                /\ \A i \in Ids \ {EntityId} : store[i] = before[i]

\* C25 witness: replace_entity matched a stored document that had other
\* field values, next to another stored document, and overwrote it.
C25_Witness ==
    /\ Called("replace_entity")
    /\ EntityHasId
    /\ StoreKeptReplaceOne
    /\ result.tag = "Ok"
    /\ result.update.matched
    /\ Present(before, EntityId)
    /\ before[EntityId] # Some(call.entity.body)
    /\ store[EntityId] = Some(call.entity.body)
    /\ \E i \in Ids \ {EntityId} : Present(before, i)

\* The last call's reply carries no error of the remote call and no write
\* exception.
ReplyIsClean ==
    /\ reply # None
    /\ Unwrap(reply).ok
    /\ call.method # "count" => ~Unwrap(reply).write_exception

\* C26: count, delete_many, update_many and upsert_many return Err, never a
\* wrapped-around unsigned value, when the store reports a negative number
\* of counted, deleted, matched or modified documents; otherwise they return
\* exactly the reported counts.
C26_NegativeCountsAreErrors ==
    LET rep == Unwrap(reply) IN
    /\ (Called("count") /\ ReplyIsClean) =>
            IF rep.n < 0 THEN result.tag = "Err"
            ELSE result = [tag |-> "Ok", count |-> rep.n]
    /\ (Called("delete_many") /\ ReplyIsClean) =>
            IF rep.deleted_count < 0 THEN result.tag = "Err"
            ELSE result = [tag |-> "Ok", count |-> rep.deleted_count]
    /\ ((Called("update_many") \/ Called("upsert_many")) /\ ReplyIsClean) =>
            IF rep.matched_count < 0 \/ rep.modified_count < 0
            THEN result.tag = "Err"
            ELSE result = [tag |-> "Ok",
                           update |-> [num_matched |-> rep.matched_count,
                                       num_modified |-> rep.modified_count]]

\* C26 witness: the reply to upsert_many reported a matched count that is
\* fine and a negative modified count, and the call returned Err.
C26_Witness ==
    /\ Called("upsert_many")
    /\ ReplyIsClean
    /\ Unwrap(reply).matched_count >= 0
    /\ Unwrap(reply).modified_count < 0
    /\ result.tag = "Err"

\* The store kept its contract on the last call's find_one_and_delete
\* request.
StoreKeptFindOneAndDelete ==
    /\ reply # None
    /\ Len(requests) = 1
    /\ Request.op = "find_one_and_delete"
    /\ <<store, Unwrap(reply)>> \in
            FindOneAndDeleteContract(before, Request.filter)

\* C27: the request of find_one_and_delete carries the sort, projection and
\* max-time options of the query and no write concern.  With a store that
\* keeps its contract (and a transform that returns its argument): when the
\* filter matches, one matching document is returned as it was and is gone
\* from the store, every other document staying; when nothing matches, the
\* call returns Ok(None) and the store is unchanged.
C27_FindOneAndDelete ==
    Called("find_one_and_delete") =>
        /\ Len(requests) = 1
        /\ Request.op = "find_one_and_delete"
        /\ Request.filter = Query_filter(call.op)
        /\ Request.options.sort = call.op.options.sort
        /\ Request.options.projection = call.op.options.projection
        /\ Request.options.max_time_ms = call.op.options.max_time_ms
        /\ Request.options.write_concern = None
        /\ (StoreKeptFindOneAndDelete /\ call.op.transform = "verbatim") =>
            IF Matches(before, Request.filter) # {}
            THEN \E i \in Matches(before, Request.filter) :
                    /\ result = [tag |-> "Ok", found |-> Some(EntityAt(before, i))]
                    /\ store = [before EXCEPT ![i] = None]
            ELSE /\ result = [tag |-> "Ok", found |-> None]
                 /\ store = before

\* C27 witness: find_one_and_delete with the default filter and a sort, on
\* a store of two documents, returned one of them and removed only it.
C27_Witness ==
    /\ Called("find_one_and_delete")
    /\ StoreKeptFindOneAndDelete
    /\ call.op.transform = "verbatim"
    /\ call.op.options.sort # None
    /\ Cardinality(Matches(before, Request.filter)) = 2
    /\ result.tag = "Ok"
    /\ result.found # None
    /\ Cardinality({i \in Ids : Present(store, i)}) = 1

\* C29: T::update_options() gives the options of non-upsert updates only,
\* and T::upsert_options() those of upserts: every write sent with the
\* options of T::update_options() has upsert = false, and every write sent
\* with upsert = true (upsert_one, upsert_many, upsert_entity) takes its
\* write concern from the upsert options.
C29_UpdateOptionsNeverUpsert ==
    (/\ Len(requests) = 1
     /\ Request.op \in {"replace_one", "update_one", "update_many"}) =>
        /\ Request.write_concern = T_update_options => ~Request.upsert
        /\ Request.upsert =>
                Request.write_concern =
                    (IF Called("upsert_entity") THEN T_upsert_options
                     ELSE Upsert_options(call.op))

----------------------------------------------------------------------------
(* The insert / delete / count scenario: from an empty collection, calls   *)
(* of insert_one, insert_many and delete_entity that succeed, and count,   *)
(* against a store that keeps its contract; the caller keeps a tally of    *)
(* what the calls returned.                                                *)

\* Most entities the scenario inserts.
MaxInserts == 4

\* The store kept its contract on the last call's insert_one request: it
\* inserted the document under a free identifier and reported it.
StoreKeptInsertOne ==
    /\ reply # None
    /\ Len(requests) = 1
    /\ Request.op = "insert_one"
    /\ \E i \in Ids :
        /\ ~Present(before, i)
        /\ Request.doc._id # None => i = IdOfDoc(Request.doc)
        /\ store = [before EXCEPT ![i] = Some(Request.doc.body)]
        /\ Unwrap(reply) = [ok |-> TRUE, inserted_id |-> Some(to_bson(i)),
                            write_exception |-> FALSE]

\* The store kept its contract on the last insert_many call, and inserted
\* all the documents: it reported each one's identifier at its position.
StoreKeptInsertMany ==
    \/ /\ requests = <<>>
       /\ store = before
    \/ /\ reply # None
       /\ Len(requests) = 1
       /\ Request.op = "insert_many"
       /\ CanInsertPrefix(before, Request.docs, Len(Request.docs))
       /\ store = InsertPrefix(before, Request.docs, Len(Request.docs))
       /\ Unwrap(reply) =
            [ok |-> TRUE,
             inserted_ids |->
                Some([p \in 0 .. Len(Request.docs) - 1 |-> Unwrap(Request.docs[p + 1]._id)]),
             bulk_write_exception |-> FALSE]

\* The store kept its contract on the last call's count request.
StoreKeptCount ==
    /\ reply # None
    /\ Len(requests) = 1
    /\ Request.op = "count"
    /\ <<store, Unwrap(reply)>> \in CountContract(before, Request.filter)

ScenarioInsertOne ==
    /\ tally.inserted < MaxInserts
    /\ insert_one
    /\ result'.tag = "Ok"
    /\ StoreKeptInsertOne'

ScenarioInsertMany ==
    /\ tally.inserted + MaxDocs <= MaxInserts
    /\ insert_many
    /\ result'.tag = "Ok"
    /\ StoreKeptInsertMany'

ScenarioDeleteEntity ==
    /\ delete_entity
    /\ result'.tag = "Ok"
    /\ StoreKeptDeleteOne'

ScenarioCount ==
    /\ count
    /\ StoreKeptCount'

\* The caller takes the result of a call and adds it to the tally.
ScenarioTally ==
    /\ Consume
    /\ tally' =
        CASE Called("insert_one") ->
                [tally EXCEPT !.inserted = @ + 1]
          [] Called("insert_many") ->
                [tally EXCEPT !.inserted = @ + Cardinality(DOMAIN result.ids)]
          [] Called("delete_entity") /\ result.flag ->
                [tally EXCEPT !.deleted = @ + 1]
          [] OTHER -> tally
    /\ UNCHANGED extdoc

ScenarioNext ==
    \/ ScenarioInsertOne
    \/ ScenarioInsertMany
    \/ ScenarioDeleteEntity
    \/ ScenarioCount
    \/ ScenarioTally

ScenarioSpec == Init /\ [][ScenarioNext]_vars

\* C13: starting from an empty collection, after any sequence of successful
\* insert_one / insert_many and successful delete_entity calls, count with
\* the default (empty) filter returns the number of entities inserted minus
\* the number of delete_entity calls that returned true.
C13_CountIsInsertedMinusDeleted ==
    (Called("count") /\ call.op.filter = None) =>
        result = [tag |-> "Ok", count |-> tally.inserted - tally.deleted]

\* C13 witness: after more insertions than the collection now holds, and a
\* delete_entity that returned true, count returned the difference.
C13_Witness ==
    /\ Called("count")
    /\ call.op.filter = None
    /\ tally.inserted >= 3
    /\ tally.deleted >= 1
    /\ result = [tag |-> "Ok", count |-> tally.inserted - tally.deleted]
    /\ result.count >= 1

----------------------------------------------------------------------------
(* DocumentExt: the typed removal helpers of ext.rs, applied in any order  *)
(* to a document.                                                          *)

Keys == {"k1", "k2"}

\* The kinds of BSON values; a Binary is of the Generic subtype or not.
BsonKinds ==
    {"Boolean", "I32", "I64", "FloatingPoint", "String", "Array", "Document",
     "ObjectId", "UtcDatetime", "TimeStamp", "BinaryGeneric", "BinaryOther",
     "Null"}

BsonValues == [kind : BsonKinds, val : {1, 2}]

\* A Document: a map from some keys to values.
Documents == UNION {[ks -> BsonValues] : ks \in SUBSET Keys}

\* Error::kind of an error made by Error::with_cause from a
\* ValueAccessError.
Error_kind(error) ==
    IF error.cause = "NotPresent" THEN "MissingDocumentField"
    ELSE IF error.cause = "UnexpectedType" THEN "IllTypedDocumentField"
    ELSE error.kind

\* Document::remove: the removed value if any, and the document left.
Document_remove(self, key) ==
    [removed |-> IF key \in DOMAIN self THEN Some(self[key]) ELSE None,
     self |-> [k \in DOMAIN self \ {key} |-> self[k]]]

\* Document::get_bool, get_i32, ...: the typed getters, by the kinds they
\* accept.
Document_get(self, key, kinds) ==
    IF key \notin DOMAIN self THEN ErrorWithCause("NotPresent")
    ELSE IF self[key].kind \in kinds THEN [tag |-> "Ok"]
    ELSE ErrorWithCause("UnexpectedType")

\* A mutant of removal_error that always reports the key as missing.
removal_error_missing(cause) == ErrorWithCause("NotPresent")

\* removal_error
removal_error(cause) == ErrorWithCause(cause)

\* A mutant of try_remove that reads the value and leaves it in place.
try_remove_keeping(self, key) ==
    IF key \in DOMAIN self
    THEN [res |-> [tag |-> "Ok", value |-> self[key]], self |-> self]
    ELSE [res |-> ErrorWithCause("NotPresent"), self |-> self]

\* DocumentExt::try_remove: the result, and the document afterwards.
try_remove(self, key) ==
    LET removal == Document_remove(self, key) IN
    IF removal.removed # None
    THEN [res |-> [tag |-> "Ok", value |-> Unwrap(removal.removed)],
          self |-> removal.self]
    ELSE [res |-> ErrorWithCause("NotPresent"), self |-> removal.self]

\* The body shared by remove_bool, remove_i32, ..., remove_generic_binary:
\* `match self.get_x(key) { Ok(_) => self.try_remove(key),
\*                          Err(cause) => removal_error(key, ty, cause) }`
remove_typed(self, key, kinds) ==
    LET got == Document_get(self, key, kinds) IN
    IF got.tag = "Ok" THEN try_remove(self, key)
    ELSE [res |-> removal_error(got.cause), self |-> self]

\* DocumentExt::remove_number
remove_number_of(self, key) ==
    LET as_i32 == remove_typed(self, key, {"I32"})
        as_i64 == remove_typed(self, key, {"I64"})
        as_f64 == remove_typed(self, key, {"FloatingPoint"})
    IN
    IF as_i32.res.tag = "Ok" THEN as_i32
    ELSE IF as_i64.res.tag = "Ok" THEN as_i64
    ELSE IF as_f64.res.tag = "Ok" THEN as_f64
    ELSE [res |-> removal_error(IF key \in DOMAIN self
                                THEN "UnexpectedType" ELSE "NotPresent"),
          self |-> self]

\* DocumentExt::remove_inner_doc: the value is removed first and looked at
\* afterwards; the embedded Document itself is returned.
remove_inner_doc_of(self, key) ==
    LET removal == Document_remove(self, key) IN
    IF removal.removed = None
    THEN [res |-> removal_error("NotPresent"), self |-> removal.self]
    ELSE IF Unwrap(removal.removed).kind = "Document"
    THEN [res |-> [tag |-> "Ok", value |-> Unwrap(removal.removed).val],
          self |-> removal.self]
    ELSE [res |-> removal_error("UnexpectedType"), self |-> removal.self]

\* One call of a helper on the document: `removal` is what it computes.
Removes(method, key, removal) ==
    /\ call' = [method |-> method, key |-> key, self |-> extdoc]
    /\ result' = removal.res
    /\ extdoc' = removal.self
    /\ UNCHANGED <<store, before, requests, reply, tally>>

ext_try_remove ==
    \E key \in Keys : Removes("try_remove", key, try_remove(extdoc, key))

remove_bool ==
    \E key \in Keys :
        Removes("remove_bool", key, remove_typed(extdoc, key, {"Boolean"}))

remove_i32 ==
    \E key \in Keys :
        Removes("remove_i32", key, remove_typed(extdoc, key, {"I32"}))

remove_i64 ==
    \E key \in Keys :
        Removes("remove_i64", key, remove_typed(extdoc, key, {"I64"}))

remove_f64 ==
    \E key \in Keys :
        Removes("remove_f64", key, remove_typed(extdoc, key, {"FloatingPoint"}))

remove_number ==
    \E key \in Keys :
        Removes("remove_number", key, remove_number_of(extdoc, key))

remove_str ==
    \E key \in Keys :
        Removes("remove_str", key, remove_typed(extdoc, key, {"String"}))

remove_array ==
    \E key \in Keys :
        Removes("remove_array", key, remove_typed(extdoc, key, {"Array"}))

remove_document ==
    \E key \in Keys :
        Removes("remove_document", key, remove_typed(extdoc, key, {"Document"}))

remove_object_id ==
    \E key \in Keys :
        Removes("remove_object_id", key, remove_typed(extdoc, key, {"ObjectId"}))

remove_datetime ==
    \E key \in Keys :
        Removes("remove_datetime", key, remove_typed(extdoc, key, {"UtcDatetime"}))

remove_timestamp ==
    \E key \in Keys :
        Removes("remove_timestamp", key, remove_typed(extdoc, key, {"TimeStamp"}))

remove_generic_binary ==
    \E key \in Keys :
        Removes("remove_generic_binary", key,
                remove_typed(extdoc, key, {"BinaryGeneric"}))

remove_inner_doc ==
    \E key \in Keys :
        Removes("remove_inner_doc", key, remove_inner_doc_of(extdoc, key))

\* Any document to start with.
ExtInit ==
    /\ extdoc \in Documents
    /\ store = EmptyStore
    /\ before = EmptyStore
    /\ call = Idle
    /\ requests = <<>>
    /\ reply = None
    /\ result = [tag |-> "None"]
    /\ tally = [inserted |-> 0, deleted |-> 0]

ExtNext ==
    \/ ext_try_remove
    \/ remove_bool
    \/ remove_i32
    \/ remove_i64
    \/ remove_f64
    \/ remove_number
    \/ remove_str
    \/ remove_array
    \/ remove_document
    \/ remove_object_id
    \/ remove_datetime
    \/ remove_timestamp
    \/ remove_generic_binary
    \/ remove_inner_doc

ExtSpec == ExtInit /\ [][ExtNext]_vars

\* The kinds of value each typed helper is for.
HelperKinds ==
    [remove_bool |-> {"Boolean"}, remove_i32 |-> {"I32"}, remove_i64 |-> {"I64"},
     remove_f64 |-> {"FloatingPoint"},
     remove_number |-> {"I32", "I64", "FloatingPoint"},
     remove_str |-> {"String"}, remove_array |-> {"Array"},
     remove_document |-> {"Document"}, remove_object_id |-> {"ObjectId"},
     remove_datetime |-> {"UtcDatetime"}, remove_timestamp |-> {"TimeStamp"},
     remove_generic_binary |-> {"BinaryGeneric"},
     remove_inner_doc |-> {"Document"}]

TypedHelpers == DOMAIN HelperKinds

\* The key of the last helper call was in the document it was called on.
KeyWasPresent == call.key \in DOMAIN call.self

\* C15: every typed removal helper, called on a key that is present with a
\* value of another kind, fails with IllTypedDocumentField, and called on
\* an absent key fails with MissingDocumentField; try_remove fails with
\* MissingDocumentField exactly when the key is absent, and succeeds for
\* any present value, null included.
C15_MissingVersusIllTyped ==
    /\ call.method \in TypedHelpers =>
        /\ (KeyWasPresent /\ call.self[call.key].kind \notin HelperKinds[call.method]) =>
                /\ result.tag = "Err"
                /\ Error_kind(result) = "IllTypedDocumentField"
        /\ ~KeyWasPresent =>
                /\ result.tag = "Err"
                /\ Error_kind(result) = "MissingDocumentField"
    /\ Called("try_remove") =>
        /\ ~KeyWasPresent =>
                /\ result.tag = "Err"
                /\ Error_kind(result) = "MissingDocumentField"
        /\ KeyWasPresent => result.tag = "Ok"

\* C15 witness: remove_number on a key that holds a string failed with
\* IllTypedDocumentField.
C15_Witness ==
    /\ Called("remove_number")
    /\ KeyWasPresent
    /\ call.self[call.key].kind = "String"
    /\ result.tag = "Err"
    /\ Error_kind(result) = "IllTypedDocumentField"

\* A helper was called and returned Ok.
RemovalSucceeded ==
    /\ call.method \in TypedHelpers \cup {"try_remove"}
    /\ result.tag = "Ok"

\* C16: a successful removal returns the value that was stored under the
\* key and removes that key, and only that key, from the document; so the
\* same call repeated right after it fails with MissingDocumentField.  This
\* holds along any sequence of removals.
C16_RemovalTakesTheValue ==
    [][/\ RemovalSucceeded' =>
            /\ KeyWasPresent'
            /\ result'.value = (IF call'.method = "remove_inner_doc"
                                THEN call'.self[call'.key].val
                                ELSE call'.self[call'.key])
            /\ extdoc' = [k \in DOMAIN call'.self \ {call'.key} |-> call'.self[k]]
       /\ (/\ RemovalSucceeded
           /\ call'.method = call.method
           /\ call'.key = call.key) =>
            /\ result'.tag = "Err"
            /\ Error_kind(result') = "MissingDocumentField"]_vars

\* C16 witness: remove_document returned the document stored under one of
\* two keys and left the other key in place.
C16_Witness ==
    /\ Called("remove_document")
    /\ result.tag = "Ok"
    /\ result.value = call.self[call.key]
    /\ call.key \notin DOMAIN extdoc
    /\ DOMAIN extdoc # {}

\* C28: a removal helper that fails leaves the document as it was: for
\* every helper, remove_inner_doc and remove_number included, when the call
\* returns Err the document still holds the key with its original value
\* (the value is removed only when it is of the kind asked for), and the
\* other keys are untouched whether the call succeeds or fails.
C28_FailedRemovalKeepsDocument ==
    call.method \in TypedHelpers \cup {"try_remove"} =>
        /\ result.tag = "Err" => extdoc = call.self
        /\ \A k \in DOMAIN call.self \ {call.key} :
                /\ k \in DOMAIN extdoc
                /\ extdoc[k] = call.self[k]

----------------------------------------------------------------------------
(* Operation values passed by reference.  The facade methods are generic
   over the operation type and read an operation value only through the
   methods of its trait; `&Q` implements every trait that `Q` implements. *)

\* The operation traits.
Traits ==
    {"Count", "Distinct", "Pipeline", "Query", "Update", "Upsert", "Delete",
     "FindAndUpdate"}

\* The operation values tried for each trait.
OpsOf(trait) ==
    CASE trait = "Count" -> CountOps
      [] trait = "Distinct" -> DistinctOps
      [] trait = "Pipeline" -> PipelineOps
      [] trait = "Query" -> QueryOps
      [] trait = "Update" -> UpdateOps
      [] trait = "Upsert" -> UpdateOps
      [] trait = "Delete" -> DeleteOps
      [] trait = "FindAndUpdate" -> FindAndUpdateOps

\* What the methods (and associated items) of each trait return for an
\* operation value.
Reads(trait, q) ==
    CASE trait = "Count" ->
            [filter |-> Count_filter(q), options |-> Count_options(q)]
      [] trait = "Distinct" ->
            [FIELD |-> "body", filter |-> Distinct_filter(q),
             transform |-> q.transform, options |-> Distinct_options(q)]
      [] trait = "Pipeline" ->
            [stages |-> q.stages, transform |-> q.transform,
             options |-> Pipeline_options(q)]
      [] trait = "Query" ->
            [filter |-> Query_filter(q), transform |-> q.transform,
             options |-> Query_options(q)]
      [] trait = "Update" ->
            [filter |-> q.filter, update |-> q.change,
             options |-> Update_options(q)]
      [] trait = "Upsert" ->
            [filter |-> q.filter, upsert |-> q.change,
             options |-> Upsert_options(q)]
      [] trait = "Delete" ->
            [filter |-> Delete_filter(q), options |-> Delete_options(q)]
      [] trait = "FindAndUpdate" ->
            [filter |-> q.filter, update |-> q.change,
             transform |-> q.transform, options |-> FindAndUpdate_options(q)]

\* A reference to an operation value.
Ref(q) == [ref |-> q]

\* `**self` of a reference
Deref(self) == self.ref

\* impl Count<T> for &Q
Ref_Count(self) ==
    [filter |-> Count_filter(Deref(self)),
     options |-> Count_options(Deref(self))]

\* impl Distinct<T> for &Q
Ref_Distinct(self) ==
    [FIELD |-> Reads("Distinct", Deref(self)).FIELD,
     filter |-> Distinct_filter(Deref(self)),
     transform |-> Deref(self).transform,
     options |-> Distinct_options(Deref(self))]

\* impl Pipeline<T> for &P
Ref_Pipeline(self) ==
    [stages |-> Deref(self).stages,
     transform |-> Deref(self).transform,
     options |-> Pipeline_options(Deref(self))]

\* A mutant of Ref_Query whose filter is the trait's default instead of the
\* referenced value's.
Ref_Query_default_filter(self) ==
    [filter |-> QueryDefaultFilter,
     transform |-> Deref(self).transform,
     options |-> Query_options(Deref(self))]

\* impl Query<T> for &Q
Ref_Query(self) ==
    [filter |-> Query_filter(Deref(self)),
     transform |-> Deref(self).transform,
     options |-> Query_options(Deref(self))]

\* impl Update<T> for &U
Ref_Update(self) ==
    [filter |-> Deref(self).filter,
     update |-> Deref(self).change,
     options |-> Update_options(Deref(self))]

\* impl Upsert<T> for &U
Ref_Upsert(self) ==
    [filter |-> Deref(self).filter,
     upsert |-> Deref(self).change,
     options |-> Upsert_options(Deref(self))]

\* impl Delete<T> for &Q
Ref_Delete(self) ==
    [filter |-> Delete_filter(Deref(self)),
     options |-> Delete_options(Deref(self))]

\* impl FindAndUpdate<T> for &U
Ref_FindAndUpdate(self) ==
    [filter |-> Deref(self).filter,
     update |-> Deref(self).change,
     transform |-> Deref(self).transform,
     options |-> FindAndUpdate_options(Deref(self))]

\* What the methods of each trait return for a reference.
RefReads(trait, self) ==
    CASE trait = "Count" -> Ref_Count(self)
      [] trait = "Distinct" -> Ref_Distinct(self)
      [] trait = "Pipeline" -> Ref_Pipeline(self)
      [] trait = "Query" -> Ref_Query(self)
      [] trait = "Update" -> Ref_Update(self)
      [] trait = "Upsert" -> Ref_Upsert(self)
      [] trait = "Delete" -> Ref_Delete(self)
      [] trait = "FindAndUpdate" -> Ref_FindAndUpdate(self)

\* A facade method is given an operation value of a trait, by value or by
\* reference, and reads it.
Pass(trait) ==
    \E q \in OpsOf(trait) :
        \/ /\ call' = [method |-> "pass", trait |-> trait, op |-> q,
                       by |-> "value"]
           /\ result' = [tag |-> "Read", reads |-> Reads(trait, q)]
           /\ UNCHANGED <<store, before, requests, reply, aside>>
        \/ /\ call' = [method |-> "pass", trait |-> trait, op |-> q,
                       by |-> "reference"]
           /\ result' = [tag |-> "Read", reads |-> RefReads(trait, Ref(q))]
           /\ UNCHANGED <<store, before, requests, reply, aside>>

pass_Count == Pass("Count")

pass_Distinct == Pass("Distinct")

pass_Pipeline == Pass("Pipeline")

pass_Query == Pass("Query")

pass_Update == Pass("Update")

pass_Upsert == Pass("Upsert")

pass_Delete == Pass("Delete")

pass_FindAndUpdate == Pass("FindAndUpdate")

RefNext ==
    \/ pass_Count
    \/ pass_Distinct
    \/ pass_Pipeline
    \/ pass_Query
    \/ pass_Update
    \/ pass_Upsert
    \/ pass_Delete
    \/ pass_FindAndUpdate

RefSpec == Init /\ [][RefNext]_vars

\* C19: for every operation trait and every operation value q, what the
\* facade reads off &q (filter, update / upsert / stages document, options,
\* FIELD, transform) is what it reads off q itself.
C19_ReferenceTransparency ==
    (Called("pass") /\ call.by = "reference") =>
        result = [tag |-> "Read", reads |-> Reads(call.trait, call.op)]

\* C19 witness: a reference to a query that overrides the default filter
\* was passed, and the filter read is the query's own.
C19_Witness ==
    /\ Called("pass")
    /\ call.by = "reference"
    /\ call.trait = "Query"
    /\ call.op.filter # None
    /\ result.reads.filter = Unwrap(call.op.filter)
    /\ result.reads.filter # QueryDefaultFilter

----------------------------------------------------------------------------
(* Several tasks calling the same Collection.  The facade has no state of
   its own: a call prepares its requests from its arguments, the store
   serves one request at a time, and the call turns the last reply into its
   result.  Here the store keeps its contract.  In this part `call`,
   `requests`, `reply` and `result` hold one value per task, and `before`
   keeps the contents the store started with. *)

\* The number of tasks.
NTasks == 2

Tasks == 1 .. NTasks

\* The entities the tasks pass: they contend for one identifier, or have
\* none.
ConcEntities(body) ==
    {e \in Entity : e.body = body /\ e.id \in {None, Some(AnyId)}}

\* The calls the tasks make: entity writes and deletions, and a count of
\* the whole collection.
ConcCalls ==
    [method : {"replace_entity", "upsert_entity"}, entity : ConcEntities("b")]
        \cup [method : {"delete_entity"}, entity : ConcEntities("a")]
        \cup [method : {"count"}, op : {q \in CountOps : q.filter = None /\ q.options = None}]

\* The result of a call that returns before it sends anything, if it does.
EarlyResultOf(c) ==
    CASE c.method \in {"replace_entity", "upsert_entity"} ->
            IF remove_id(serialize_document(c.entity)).removed = None
            THEN Some(NoIdError) ELSE None
      [] c.method = "delete_entity" ->
            IF id(c.entity) = None THEN Some(DeleteEntityNoIdError) ELSE None
      [] c.method = "count" -> None

\* The requests a call sends to the store, in order.
RequestsOf(c) ==
    CASE c.method \in {"replace_entity", "upsert_entity"} ->
            LET removed == remove_id(serialize_document(c.entity)) IN
            EntityWriteRequests(
                EntityFilter(Unwrap(removed.removed)), removed.rest,
                [upsert |-> IF c.method = "replace_entity"
                            THEN ReplaceEntityUpsert ELSE UpsertEntityUpsert,
                 write_concern |-> T_update_options])
      [] c.method = "delete_entity" ->
            LET query == DocumentOp(IdFilter(to_bson(Unwrap(id(c.entity))))) IN
            DeleteOneRequests(Delete_filter(query), Delete_options(query))
      [] c.method = "count" -> CountRequests(c.op)

\* What the store does with a request, by contract.
ContractOf(st, request) ==
    CASE request.op = "replace_one" ->
            WriteOneContract(st, request.filter, request.doc.body, request.upsert)
      [] request.op = "delete_one" -> DeleteOneContract(st, request.filter)
      [] request.op = "count" -> CountContract(st, request.filter)

\* What a call makes of the reply to its last request.
OutcomeOf(c, rep) ==
    CASE c.method = "replace_entity" ->
            and_then_from_raw(CheckWriteException(rep), "UpdateOneResult")
      [] c.method = "upsert_entity" ->
            and_then_from_raw(CheckWriteException(rep), "UpsertOneResult")
      [] c.method = "delete_entity" -> DeleteOneOutcome(rep)
      [] c.method = "count" -> CountOutcome(rep)

\* The contents the store may start with.
ConcStores == [Ids -> {None, Some("a")}]

ConcInit ==
    /\ store \in ConcStores
    /\ before = store
    /\ call = [t \in Tasks |-> Idle]
    /\ requests = [t \in Tasks |-> <<>>]
    /\ reply = [t \in Tasks |-> None]
    /\ result = [t \in Tasks |-> [tag |-> "None"]]
    /\ extdoc = <<>>
    /\ tally = [inserted |-> 0, deleted |-> 0]

\* The tasks that have begun a call and not returned from it.
InCall == {t \in Tasks : call[t].method # "idle" /\ result[t].tag = "None"}

\* A task begins a call: it returns at once, or its requests are ready to
\* be sent.  `during` records the tasks that were in a call at that moment.
Begins(t, c) ==
    /\ call[t].method = "idle"
    /\ call' = [call EXCEPT ![t] = c @@ [during |-> InCall]]
    /\ IF EarlyResultOf(c) # None
       THEN /\ result' = [result EXCEPT ![t] = Unwrap(EarlyResultOf(c))]
            /\ UNCHANGED requests
       ELSE /\ requests' = [requests EXCEPT ![t] = RequestsOf(c)]
            /\ UNCHANGED result
    /\ UNCHANGED <<store, before, reply, aside>>

\* The calls of a method.
CallsOf(method) == {c \in ConcCalls : c.method = method}

begin_replace_entity ==
    \E t \in Tasks, c \in CallsOf("replace_entity") : Begins(t, c)

begin_upsert_entity ==
    \E t \in Tasks, c \in CallsOf("upsert_entity") : Begins(t, c)

begin_delete_entity ==
    \E t \in Tasks, c \in CallsOf("delete_entity") : Begins(t, c)

begin_count ==
    \E t \in Tasks, c \in CallsOf("count") : Begins(t, c)

\* The store serves the next request of a task, atomically.
store_serves ==
    \E t \in Tasks :
        /\ requests[t] # <<>>
        /\ \E k \in ContractOf(store, Head(requests[t])) :
            /\ store' = k[1]
            /\ reply' = [reply EXCEPT ![t] = Some(k[2])]
        /\ requests' = [requests EXCEPT ![t] = Tail(requests[t])]
        /\ UNCHANGED <<before, call, result, aside>>

\* A task whose requests have all been served returns from its call.
task_returns ==
    \E t \in Tasks :
        /\ t \in InCall
        /\ requests[t] = <<>>
        /\ reply[t] # None
        /\ result' = [result EXCEPT ![t] = OutcomeOf(call[t], Unwrap(reply[t]))]
        /\ UNCHANGED <<store, before, call, requests, reply, aside>>

ConcNext ==
    \/ begin_replace_entity
    \/ begin_upsert_entity
    \/ begin_delete_entity
    \/ begin_count
    \/ store_serves
    \/ task_returns

ConcSpec == ConcInit /\ [][ConcNext]_vars

\* A call made on its own: the contents and the result it may end with.
RECURSIVE ServedAlone(_, _, _, _)
ServedAlone(c, reqs, st, last) ==
    IF reqs = <<>>
    THEN {<<st, OutcomeOf(c, last)>>}
    ELSE UNION {ServedAlone(c, Tail(reqs), k[1], k[2]) :
                    k \in ContractOf(st, Head(reqs))}

CalledAlone(c, st) ==
    IF EarlyResultOf(c) # None
    THEN {<<st, Unwrap(EarlyResultOf(c))>>}
    ELSE ServedAlone(c, RequestsOf(c), st, [ok |-> FALSE])

\* The calls of the tasks made one after another in an order: the contents
\* and the results they may end with.
RECURSIVE InSequence(_, _, _)
InSequence(order, st, results) ==
    IF order = <<>>
    THEN {<<st, results>>}
    ELSE UNION {InSequence(Tail(order), k[1],
                           [results EXCEPT ![Head(order)] = k[2]]) :
                    k \in CalledAlone(call[Head(order)], st)}

\* The orders in which the tasks may be taken.
Orders == {o \in [1 .. NTasks -> Tasks] : \A t \in Tasks : \E p \in 1 .. NTasks : o[p] = t}

\* Every task has made its call and returned.
AllReturned == \A t \in Tasks : result[t].tag # "None"

\* C24: however the calls of several tasks on one Collection interleave,
\* once they have all returned, the results and the contents of the store
\* are those of the same calls made one after another in some order.
C24_CallsAreAtomic ==
    AllReturned =>
        \E o \in Orders : <<store, result>> \in InSequence(o, before, result)

\* C24 witness: a count began while an upsert_entity of a new document was
\* under way, and both returned; the count saw the new document.
C24_Witness ==
    /\ AllReturned
    /\ \E t \in Tasks, u \in Tasks :
        /\ call[t].method = "count"
        /\ call[u].method = "upsert_entity"
        /\ u \in call[t].during
        /\ result[u].tag = "Ok"
        /\ result[u].update.upserted_id # None
        /\ result[t].tag = "Ok"
        /\ result[t].count = Cardinality({i \in Ids : Present(before, i)}) + 1

====
